---- MODULE Spec2Model ----
(***************************************************************************)
(* Facility coordinate validation pipeline of frontend/script.js:          *)
(* per-facility checks, the failure tracker, the batched validation run    *)
(* and the retry of failed checks.                                         *)
(*                                                                         *)
(* Facility indices are 1-based here (JavaScript index + 1).  A facility   *)
(* object is identified with its position in uploadedData: the behaviours  *)
(* modelled start after the file import and the country selection, which   *)
(* is when the validate button is enabled (script.js 240-243).             *)
(***************************************************************************)
EXTENDS Integers, Sequences, FiniteSets, TLC

\* ---------------------------------------------------------------- bounds
\* Largest uploaded collection of the check-level specification Spec.
MaxFac == 2
\* Largest uploaded collection of the facility-level specification SpecBatch.
MaxFacBatch == 6
\* Remote responses, over one behaviour, that are not a well-formed passing one.
MaxFaults == 2
\* Exceptions raised, over one behaviour, inside facility validation tasks.
MaxThrows == 1
\* Validation runs in flight at the same time.
MaxRuns == 1
\* Facility indices and check types of the tracker specification SpecTracker.
MaxTrackFac == 2
MaxTrackChecks == 2
\* Rows of a scenario file.
MaxScenarioRows == 1
\* Largest population a population payload carries.
MaxPopulation == 101
\* Largest coordinate, in units of the duplicate threshold, of the
\* specification SpecDuplicates.
MaxCoord == 1
\* Longest admin name, in characters.
MaxNameLen == 2
\* Rows of an imported file.
MaxRows == 2
\* Facilities of the specification SpecShared.
MaxShared == 2
\* Responses to the retried calls of one check, over one behaviour, that
\* are not passing ones (specification SpecRetryAgain).
MaxRetried == 4

\* ------------------------------------------------------ program constants
batchSize == 5
retryBatchSize == 5
maxRetries == 3
populationThreshold == 100
\* The duplicate threshold (0.001 degree); coordinates count in this unit.
threshold == 1

checkTypes == <<"country", "admin", "road", "building", "water", "population">>

RemoteChecks == {"country", "road", "building", "water", "population"}

Categories ==
    {"Invalid", "Data Consistency Review", "Location Accuracy Flags", "Valid"}

\* ------------------------------------------------------ check results
\* A stored check result.  present = FALSE is the field never assigned
\* (undefined); flag is .valid, or .on_water for the water check.
NoResult == [present |-> FALSE, flag |-> FALSE, message |-> "none", n |-> 0]

Result(flag, message, n) ==
    [present |-> TRUE, flag |-> flag, message |-> message, n |-> n]

\* f.<field>?.valid and f.waterCheck?.on_water read as a condition:
\* undefined (absent) is falsy.
Truthy(r) == r.present /\ r.flag

NewFacility(x, y) ==
    [x |-> x, y |-> y,
     countryBoundary |-> NoResult, adminAreaMatch |-> NoResult,
     roadDistance |-> NoResult, buildingDistance |-> NoResult,
     waterCheck |-> NoResult, populationDensity |-> NoResult,
     duplicateCheck |-> NoResult,
     countryData |-> "none", category |-> "none", error |-> FALSE]

FieldOf(checkType) ==
    CASE checkType = "country" -> "countryBoundary"
      [] checkType = "admin" -> "adminAreaMatch"
      [] checkType = "road" -> "roadDistance"
      [] checkType = "building" -> "buildingDistance"
      [] checkType = "water" -> "waterCheck"
      [] checkType = "population" -> "populationDensity"
      [] OTHER -> "duplicateCheck"

\* Faulty variant: the water result is not looked at.
determineFacilityCategory_noWater(f) ==
    IF ~Truthy(f.countryBoundary)
    THEN "Invalid"
    ELSE IF ~Truthy(f.duplicateCheck) \/ ~Truthy(f.adminAreaMatch)
    THEN "Data Consistency Review"
    ELSE IF ~Truthy(f.roadDistance) \/ ~Truthy(f.buildingDistance)
            \/ ~Truthy(f.populationDensity)
    THEN "Location Accuracy Flags"
    ELSE "Valid"

determineFacilityCategory(f) ==
    IF ~Truthy(f.countryBoundary) \/ Truthy(f.waterCheck)
    THEN "Invalid"
    ELSE IF ~Truthy(f.duplicateCheck) \/ ~Truthy(f.adminAreaMatch)
    THEN "Data Consistency Review"
    ELSE IF ~Truthy(f.roadDistance) \/ ~Truthy(f.buildingDistance)
            \/ ~Truthy(f.populationDensity)
    THEN "Location Accuracy Flags"
    ELSE "Valid"

\* ------------------------------------------------------ failure tracker
\* failedChecks maps a facility index to its failure records, in insertion
\* order (the key order of the inner object); an absent key is an index
\* outside the DOMAIN.
FailureRecord(checkType, facility, failureType) ==
    [checkType |-> checkType, facility |-> facility, retryCount |-> 0,
     maxRetries |-> maxRetries, failureType |-> failureType]

HasCheck(fc, facilityIndex, checkType) ==
    /\ facilityIndex \in DOMAIN fc
    /\ \E k \in 1..Len(fc[facilityIndex]) :
          fc[facilityIndex][k].checkType = checkType

\* Faulty variant: a record is added whether or not the key is present.
addFailedCheck_append(fc, facilityIndex, checkType, facility, failureType) ==
    LET fc1 == IF facilityIndex \in DOMAIN fc THEN fc
               ELSE fc @@ (facilityIndex :> <<>>)
    IN  [fc1 EXCEPT ![facilityIndex] =
            Append(@, FailureRecord(checkType, facility, failureType))]

\* Faulty variant: a call with a key that is present replaces the record.
addFailedCheck_overwrite(fc, facilityIndex, checkType, facility, failureType) ==
    LET fc1 == IF facilityIndex \in DOMAIN fc THEN fc
               ELSE fc @@ (facilityIndex :> <<>>)
    IN  IF HasCheck(fc1, facilityIndex, checkType)
        THEN [fc1 EXCEPT ![facilityIndex] =
                [k \in DOMAIN @ |->
                    IF @[k].checkType = checkType
                    THEN FailureRecord(checkType, facility, failureType)
                    ELSE @[k]]]
        ELSE [fc1 EXCEPT ![facilityIndex] =
                Append(@, FailureRecord(checkType, facility, failureType))]

addFailedCheck(fc, facilityIndex, checkType, facility, failureType) ==
    LET fc1 == IF facilityIndex \in DOMAIN fc THEN fc
               ELSE fc @@ (facilityIndex :> <<>>)
    IN  IF HasCheck(fc1, facilityIndex, checkType) THEN fc1
        ELSE [fc1 EXCEPT ![facilityIndex] =
                Append(@, FailureRecord(checkType, facility, failureType))]

\* Faulty variant: a facility key without checks is left in the tracker.
removeFailedCheck_noPrune(fc, facilityIndex, checkType) ==
    IF HasCheck(fc, facilityIndex, checkType)
    THEN [fc EXCEPT ![facilityIndex] =
             SelectSeq(@, LAMBDA e : e.checkType # checkType)]
    ELSE fc

removeFailedCheck(fc, facilityIndex, checkType) ==
    IF HasCheck(fc, facilityIndex, checkType)
    THEN LET rest == SelectSeq(fc[facilityIndex],
                               LAMBDA e : e.checkType # checkType)
         IN  IF Len(rest) = 0
             THEN [k \in DOMAIN fc \ {facilityIndex} |-> fc[k]]
             ELSE [fc EXCEPT ![facilityIndex] = rest]
    ELSE fc

RECURSIVE SumLen(_, _)
SumLen(fc, S) ==
    IF S = {} THEN 0
    ELSE LET i == CHOOSE i \in S : TRUE
         IN  Len(fc[i]) + SumLen(fc, S \ {i})

countFailedChecks(fc) == SumLen(fc, DOMAIN fc)

\* ------------------------------------------------------ page
\* The page elements the handlers write, as a record dom:
\*   dom.retryBtn      the retry button: disabled, its label (text) and the
\*                     number the label shows (count, 0 when it shows none);
\*   dom.checks        the status indicators of the progress cards, by
\*                     facility index and check; a facility without a card
\*                     is outside the DOMAIN;
\*   dom.progressText  the last (current, total) written by
\*                     updateOverallProgress, <<>> before the first.
\* The retry button as the results table creates it.
NewRetryBtn == [disabled |-> FALSE, text |-> "Retry Failed", count |-> 0]

updateRetryButton(fc) ==
    IF countFailedChecks(fc) > 0
    THEN [disabled |-> FALSE, text |-> "Retry Failed (n)",
          count |-> countFailedChecks(fc)]
    ELSE [disabled |-> TRUE, text |-> "Retry Failed", count |-> 0]

\* The status indicators of a new progress card.
createProgressCard ==
    [c \in {"country", "admin", "road", "building", "water", "population"}
        |-> [status |-> "pending", apiError |-> FALSE]]

NewDocument ==
    [retryBtn |-> NewRetryBtn, checks |-> <<>>, progressText |-> <<>>]

\* Faulty variant: the api-error class of an earlier call is kept.
updateCheckStatus_keepFlag(dom, index, checkName, status, isApiError) ==
    IF index \notin DOMAIN dom.checks THEN dom
    ELSE [dom EXCEPT !.checks[index][checkName] =
             [status |-> status, apiError |-> @.apiError \/ isApiError]]

\* The class name of the indicator is replaced, then the api-error class
\* is added; nothing happens when the facility has no card.
updateCheckStatus(dom, index, checkName, status, isApiError) ==
    IF index \notin DOMAIN dom.checks THEN dom
    ELSE [dom EXCEPT !.checks[index][checkName] =
             [status |-> status, apiError |-> isApiError]]

updateOverallProgress(dom, current, total) ==
    [dom EXCEPT !.progressText = <<current, total>>]

\* ------------------------------------------------------ remote services
\* A response of a remote check endpoint as fetch delivers it:
\*   kind "http": the call rejects, answers non-2xx or its body is no JSON;
\*   kind "null": 2xx with a JSON body that is no object (null), so that
\*                reading a property of it raises a TypeError;
\*   kind "ok":   a JSON object.  flag is the country_code comparison,
\*                .valid, or .on_water; admin tells how the address payload
\*                compares with the facility's Admin1 ("bad": an admin field
\*                that is no string); population is .population.
Response(kind, flag, admin, population) ==
    [kind |-> kind, flag |-> flag, admin |-> admin, population |-> population]

PopValues == {0, populationThreshold, populationThreshold + 1}

Responses(checkType) ==
    {Response("http", FALSE, "none", 0), Response("null", FALSE, "none", 0)}
    \cup
    CASE checkType = "country" ->
           {Response("ok", b, a, 0) :
               b \in BOOLEAN, a \in {"match", "mismatch", "bad"}}
      [] checkType = "population" ->
           {Response("ok", FALSE, "none", p) : p \in PopValues}
      [] OTHER ->
           {Response("ok", b, "none", 0) : b \in BOOLEAN}

\* The well-formed response on which the check, and for the country
\* lookup the admin check that reads its payload, passes.
GoodResponse(checkType, resp) ==
    /\ resp.kind = "ok"
    /\ CASE checkType = "country" -> resp.flag /\ resp.admin = "match"
         [] checkType = "water" -> ~resp.flag
         [] checkType = "population" -> resp.population > populationThreshold
         [] OTHER -> resp.flag

\* ------------------------------------------------------ one check
\* The operators below thread a record w:
\*   w.data   uploadedData (the facility objects),
\*   w.failed failedChecks,
\*   w.dom    the page,
\*   w.log    the runApiCheck invocations of the handler step so far.
\* Faulty variant: the result is written on every facility.
Store_all(w, facility, field, result) ==
    [w EXCEPT !.data = [k \in DOMAIN @ |-> [@[k] EXCEPT ![field] = result]]]

\* facility.<field> = result.
Store(w, facility, field, result) ==
    [w EXCEPT !.data[facility][field] = result]

\* A call of addFailedCheck: the button is refreshed when a record is added.
Track(w, facilityIndex, checkType, facility, failureType) ==
    LET fc == addFailedCheck(w.failed, facilityIndex, checkType, facility,
                             failureType)
    IN  [w EXCEPT !.failed = fc,
                  !.dom.retryBtn =
                      IF HasCheck(w.failed, facilityIndex, checkType) THEN @
                      ELSE updateRetryButton(fc)]

\* A call of removeFailedCheck: the button is refreshed when a record is
\* removed.
Untrack(w, facilityIndex, checkType) ==
    LET fc == removeFailedCheck(w.failed, facilityIndex, checkType)
    IN  [w EXCEPT !.failed = fc,
                  !.dom.retryBtn =
                      IF HasCheck(w.failed, facilityIndex, checkType)
                      THEN updateRetryButton(fc) ELSE @]

\* runApiCheck up to the remote call of its case.
StartCheck(w, facilityIndex, checkType) ==
    [w EXCEPT !.dom = updateCheckStatus(@, facilityIndex, checkType,
                                        "loading", FALSE)]

\* The last updateCheckStatus call of a case.
EndCheck(w, facilityIndex, checkType, status, isApiError) ==
    [w EXCEPT !.dom = updateCheckStatus(@, facilityIndex, checkType, status,
                                        isApiError)]

makeApiCall(w, facilityIndex, checkType, facility, resp) ==
    IF resp.kind = "http"
    THEN [w |-> Track(w, facilityIndex, checkType, facility, "api"),
          threw |-> TRUE]
    ELSE [w |-> w, threw |-> FALSE]

isValidationFailure(checkType, result) ==
    CASE checkType \in {"country", "admin", "road", "building", "population"}
           -> ~result.flag
      [] checkType = "water" -> result.flag
      [] OTHER -> FALSE

\* The value stored by the catch branch of a check.
ApiErrorResult(checkType) == Result(FALSE, "API Error", 0)

\* The value stored from a well-formed response.
EvaluatedResult(checkType, resp) ==
    CASE checkType = "population" ->
           Result(resp.population > populationThreshold, "result",
                  resp.population)
      [] OTHER -> Result(resp.flag, "result", 0)

\* The try block of a remote case after its result was stored: a negative
\* result is tracked, the indicator is set.
Evaluated(w, facility, facilityIndex, checkType) ==
    IF isValidationFailure(checkType, w.data[facility][FieldOf(checkType)])
    THEN [w |-> EndCheck(Track(w, facilityIndex, checkType, facility,
                               "validation"),
                         facilityIndex, checkType, "failed", FALSE),
          apiErrorOccurred |-> FALSE]
    ELSE [w |-> EndCheck(w, facilityIndex, checkType, "success", FALSE),
          apiErrorOccurred |-> FALSE]

\* A remote case after makeApiCall returned or threw (call): the catch
\* branch, or the result is stored (the country case keeps the payload for
\* the admin check) and evaluated.
AfterCall(call, facility, facilityIndex, checkType, resp) ==
    IF call.threw \/ resp.kind = "null"
    THEN [w |-> EndCheck(Store(call.w, facility, FieldOf(checkType),
                               ApiErrorResult(checkType)),
                         facilityIndex, checkType, "failed", TRUE),
          apiErrorOccurred |-> TRUE]
    ELSE Evaluated(
             [Store(call.w, facility, FieldOf(checkType),
                    EvaluatedResult(checkType, resp))
                 EXCEPT !.data[facility].countryData =
                            IF checkType = "country" THEN resp.admin ELSE @],
             facility, facilityIndex, checkType)

\* The switch of runApiCheck for a check that calls a remote service.
RemoteCase(w, facility, facilityIndex, checkType, resp) ==
    AfterCall(makeApiCall(w, facilityIndex, checkType, facility, resp),
              facility, facilityIndex, checkType, resp)

\* The admin case of the switch: no remote call, it reads the payload the
\* country check left on the facility.
\* Faulty variant: missing country data is shown as an ordinary failure.
AdminEvaluate_noFlag(w, facility, facilityIndex) ==
    LET payload == w.data[facility].countryData
    IN  IF payload = "none"
        THEN [w |-> Track(EndCheck(Store(w, facility, "adminAreaMatch",
                                         Result(FALSE, "Country data missing",
                                                0)),
                                   facilityIndex, "admin", "failed", FALSE),
                          facilityIndex, "admin", facility, "api"),
              apiErrorOccurred |-> FALSE]
        ELSE [w |-> EndCheck(Store(w, facility, "adminAreaMatch",
                                   Result(payload = "match", "result", 0)),
                             facilityIndex, "admin",
                             IF payload = "match" THEN "success" ELSE "failed",
                             FALSE),
              apiErrorOccurred |-> FALSE]

AdminEvaluate(w, facility, facilityIndex) ==
    LET payload == w.data[facility].countryData
    IN  IF payload = "none"
        THEN [w |-> Track(EndCheck(Store(w, facility, "adminAreaMatch",
                                         Result(FALSE, "Country data missing",
                                                0)),
                                   facilityIndex, "admin", "failed", TRUE),
                          facilityIndex, "admin", facility, "api"),
              apiErrorOccurred |-> FALSE]
        ELSE IF payload = "bad"
        THEN [w |-> EndCheck(Store(w, facility, "adminAreaMatch",
                                   ApiErrorResult("admin")),
                             facilityIndex, "admin", "failed", TRUE),
              apiErrorOccurred |-> TRUE]
        ELSE IF payload = "match"
        THEN [w |-> EndCheck(Store(w, facility, "adminAreaMatch",
                                   Result(TRUE, "result", 0)),
                             facilityIndex, "admin", "success", FALSE),
              apiErrorOccurred |-> FALSE]
        ELSE [w |-> EndCheck(Track(Store(w, facility, "adminAreaMatch",
                                         Result(FALSE, "result", 0)),
                                   facilityIndex, "admin", facility,
                                   "validation"),
                             facilityIndex, "admin", "failed", FALSE),
              apiErrorOccurred |-> FALSE]

AdminCase(w, facility, facilityIndex) ==
    AdminEvaluate(StartCheck(w, facilityIndex, "admin"), facility,
                  facilityIndex)

\* isNowSuccessful of the retry branch.
isNowSuccessful(checkType, f) ==
    IF checkType = "water" THEN ~Truthy(f.waterCheck)
    ELSE Truthy(f[FieldOf(checkType)])

\* How the run of a check ended, for the log: "api" for a failed call, a
\* payload that could not be processed or missing country data,
\* "validation" for a well-formed negative result, "pass" otherwise.
Outcome(checkType, r, f) ==
    IF r.apiErrorOccurred \/ f[FieldOf(checkType)].message # "result"
    THEN "api"
    ELSE IF isValidationFailure(checkType, f[FieldOf(checkType)])
    THEN "validation"
    ELSE "pass"

\* Faulty variant: a retried check leaves the tracker whether or not it
\* passed.
AfterCase_dropFailed(r, facility, facilityIndex, checkType, isRetry) ==
    [(IF isRetry THEN Untrack(r.w, facilityIndex, checkType) ELSE r.w)
        EXCEPT !.log = Append(@,
            [facilityIndex |-> facilityIndex, facility |-> facility,
             checkType |-> checkType, isRetry |-> isRetry,
             called |-> checkType # "admin",
             outcome |-> Outcome(checkType, r, r.w.data[facility])])]

\* runApiCheck after the switch (r is what the case left): the retry
\* branch, then the invocation is logged.
AfterCase(r, facility, facilityIndex, checkType, isRetry) ==
    [(IF /\ isRetry
         /\ ~r.apiErrorOccurred
         /\ isNowSuccessful(checkType, r.w.data[facility])
      THEN Untrack(r.w, facilityIndex, checkType)
      ELSE r.w)
        EXCEPT !.log = Append(@,
            [facilityIndex |-> facilityIndex, facility |-> facility,
             checkType |-> checkType, isRetry |-> isRetry,
             called |-> checkType # "admin",
             outcome |-> Outcome(checkType, r, r.w.data[facility])])]

runApiCheck(w, facility, facilityIndex, checkType, isRetry, resp) ==
    AfterCase(IF checkType = "admin"
              THEN AdminCase(w, facility, facilityIndex)
              ELSE RemoteCase(w, facility, facilityIndex, checkType, resp),
              facility, facilityIndex, checkType, isRetry)

\* ------------------------------------------------------ state
VARIABLES
    uploadedData,   \* the uploaded facilities, a sequence of facility objects
    failedChecks,   \* the failure tracker
    isRetrying,     \* the single-flight flag of retryFailedChecks
    runs,           \* the validateCoordinates invocations in flight
    retries,        \* the retryFailedChecks invocations past the guard
    faults,         \* remote responses so far that were not passing ones
    throws,         \* exceptions so far raised in facility tasks
    document,       \* the page elements the handlers write
    countryData,    \* the module-level countryData of unnamed/part_000
    event           \* what the last handler step did (history)

vars == <<uploadedData, failedChecks, isRetrying, runs, retries, faults,
          throws, document, countryData, event>>

\* The module-level countryData of unnamed/part_000 before any lookup
\* (null): no address, so no admin name.
NoPayload == [owner |-> 0, osmAdmin1 |-> <<>>]

\* The history of the last step: the handler that took it (actor, type),
\* whether its invocation ended with it (completed), the runApiCheck
\* invocations it made (checks) and, of a validation run that ended, the
\* results list, the tasks it launched, the facilities whose task raised
\* an exception, the progress it reported (progress) and whether no other
\* validation run was in flight during it (alone); of a retry, its work list and the positions it has run; of a
\* direct call of a tracker operation, its arguments (list) and whether the
\* key was in the tracker before the call (hit).
Event(actor, type) ==
    [actor |-> actor, type |-> type, completed |-> FALSE, checks |-> <<>>,
     results |-> <<>>, launched |-> <<>>, failed |-> {}, alone |-> TRUE,
     progress |-> <<>>, list |-> <<>>, ran |-> <<>>, hit |-> FALSE]

World ==
    [data |-> uploadedData, failed |-> failedChecks, dom |-> document,
     log |-> <<>>]

Abs(n) == IF n < 0 THEN -n ELSE n

Min(a, b) == IF a < b THEN a ELSE b

RemoveAt(seq, r) == [j \in 1..(Len(seq) - 1) |-> IF j < r THEN seq[j] ELSE seq[j + 1]]

\* ------------------------------------------------------ one facility
\* Faulty variant: only the facilities before index are compared.
Duplicates_before(data, f, index) ==
    {i \in DOMAIN data :
        /\ i < index
        /\ Abs(data[i].x - data[f].x) < threshold
        /\ Abs(data[i].y - data[f].y) < threshold}

\* Faulty variant: only the facilities of the batch of index are compared.
Duplicates_sameBatch(data, f, index) ==
    {i \in DOMAIN data :
        /\ i # index
        /\ (i - 1) \div batchSize = (index - 1) \div batchSize
        /\ Abs(data[i].x - data[f].x) < threshold
        /\ Abs(data[i].y - data[f].y) < threshold}

\* The facilities of the whole collection that duplicate facility f, the
\* one at index excepted.
Duplicates(data, f, index) ==
    {i \in DOMAIN data :
        /\ i # index
        /\ Abs(data[i].x - data[f].x) < threshold
        /\ Abs(data[i].y - data[f].y) < threshold}

\* validateSingleFacility after the loop over the remote checks: the
\* duplicate check, the category.
FinishFacility(w, f, index) ==
    LET n == Cardinality(Duplicates(w.data, f, index))
        w1 == Store(w, f, "duplicateCheck", Result(n = 0, "result", n))
    IN  [w1 EXCEPT !.data[f].category = determineFacilityCategory(w1.data[f])]

\* Faulty variant: the road check is skipped.
NextRemote_skipRoad(checkType) ==
    CASE checkType = "country" -> "building"
      [] checkType = "building" -> "water"
      [] checkType = "water" -> "population"
      [] OTHER -> "fulfilled"

\* The remote check after checkType in the loop of validateSingleFacility
\* (the admin check makes no call and runs in between).
NextRemote(checkType) ==
    CASE checkType = "country" -> "road"
      [] checkType = "road" -> "building"
      [] checkType = "building" -> "water"
      [] checkType = "water" -> "population"
      [] OTHER -> "fulfilled"

\* One resumption of validateSingleFacility(f, index): the response of the
\* check in flight is processed and the task runs on to its next remote
\* call, or to its end.
\* The loop of validateSingleFacility after the check checkType ended: the
\* admin check follows the country lookup at once; then the next remote
\* call is made, or the loop has ended.
AfterCheck(w, f, index, checkType, resp) ==
    IF checkType = "country"
    THEN StartCheck(runApiCheck(w, f, index, "admin", FALSE, resp), index,
                    NextRemote(checkType))
    ELSE IF NextRemote(checkType) = "fulfilled"
    THEN FinishFacility(w, f, index)
    ELSE StartCheck(w, index, NextRemote(checkType))

ResumeFacility(w, f, index, checkType, resp) ==
    AfterCheck(runApiCheck(w, f, index, checkType, FALSE, resp), f, index,
               checkType, resp)

\* The catch block of validateSingleFacility.
CatchFacility(w, f) ==
    [w EXCEPT !.data[f].error = TRUE, !.data[f].category = "Error"]

\* ------------------------------------------------------ validation run
\* Faulty variant: a slice one facility short of the batch size.
Slice_short(data, lo) ==
    [j \in 1..(Min(lo + batchSize - 2, Len(data)) - lo + 1) |-> lo + j - 1]

\* uploadedData.slice(lo, lo + batchSize), as facility objects.
Slice(data, lo) ==
    [j \in 1..(Min(lo + batchSize - 1, Len(data)) - lo + 1) |-> lo + j - 1]

\* batch.map((f, idx) => validateSingleFacility(f, i + idx, ...)): every
\* task runs up to its first remote call, the country lookup.
LaunchBatch(batch, lo) ==
    [j \in 1..Len(batch) |->
        [facility |-> batch[j], index |-> lo + j - 1, pc |-> "country"]]

\* The page after the tasks from position j on were launched: each has set
\* its country indicator to loading.
RECURSIVE LaunchCards(_, _, _)
LaunchCards(dom, tasks, j) ==
    IF j > Len(tasks) THEN dom
    ELSE LaunchCards(updateCheckStatus(dom, tasks[j].index, "country",
                                       "loading", FALSE),
                     tasks, j + 1)

Launches(tasks) ==
    [j \in 1..Len(tasks) |-> <<tasks[j].facility, tasks[j].index>>]

NewRun(data) ==
    LET tasks == LaunchBatch(Slice(data, 1), 1)
    IN  [lo |-> 1, tasks |-> tasks, results |-> <<>>,
         launched |-> Launches(tasks), failed |-> {}, alone |-> TRUE,
         progress |-> <<>>]

\* Faulty variant: the batch counts as settled with its first settled task.
Settled_any(run) ==
    \E j \in 1..Len(run.tasks) : run.tasks[j].pc \in {"fulfilled", "rejected"}

\* await Promise.allSettled(batchPromises) returns.
Settled(run) ==
    \A j \in 1..Len(run.tasks) : run.tasks[j].pc \in {"fulfilled", "rejected"}

\* Faulty variant: a rejected task leaves its facility unmarked.
SettleData_noMark(data, run) == data

\* The forEach over the settled batch: a fulfilled task contributes the
\* facility it returned, a rejected one is marked and contributes batch[idx].
SettleData(data, run) ==
    [k \in DOMAIN data |->
        IF \E j \in 1..Len(run.tasks) :
              run.tasks[j].facility = k /\ run.tasks[j].pc = "rejected"
        THEN [data[k] EXCEPT !.error = TRUE, !.category = "Error"]
        ELSE data[k]]

\* Faulty variant: a rejected task contributes nothing to the results.
SettleResults_fulfilledOnly(run) ==
    run.results \o
    [j \in 1..Cardinality({i \in 1..Len(run.tasks) :
                              run.tasks[i].pc # "rejected"}) |->
        run.tasks[j].facility]

\* The results list after the forEach over the settled batch.
SettleResults(run) ==
    run.results \o [j \in 1..Len(run.tasks) |-> run.tasks[j].facility]

\* The validation runs in flight after a task of run r moved (run is the
\* record of r with that task moved): the batch goes on, or the next batch
\* is launched, or the run has ended.
RunsAfterTask(r, run, data) ==
    LET lo == run.lo + batchSize
        tasks == LaunchBatch(Slice(data, lo), lo)
    IN  IF ~Settled(run) THEN [runs EXCEPT ![r] = run]
        ELSE IF lo <= Len(data)
        THEN [runs EXCEPT ![r] =
                 [run EXCEPT !.lo = lo, !.tasks = tasks,
                             !.results = SettleResults(run),
                             !.launched = @ \o Launches(tasks),
                             !.progress =
                                 Append(@, <<Len(SettleResults(run)),
                                             Len(data)>>)]]
        ELSE RemoveAt(runs, r)

\* The validation run r after one of its tasks moved: when the batch has
\* settled its results are collected, the progress is reported and the next
\* batch is launched, or the run ends.
AfterTask(w, r, run, type) ==
    IF ~Settled(run)
    THEN /\ uploadedData' = w.data
         /\ failedChecks' = w.failed
         /\ document' = w.dom
         /\ runs' = RunsAfterTask(r, run, w.data)
         /\ event' = [Event("validate", type) EXCEPT !.checks = w.log]
    ELSE LET results == SettleResults(run)
             lo == run.lo + batchSize
             data == SettleData(w.data, run)
             tasks == LaunchBatch(Slice(data, lo), lo)
             report == <<Len(results), Len(data)>>
             dom == updateOverallProgress(w.dom, report[1], report[2])
         IN  /\ uploadedData' = data
             /\ failedChecks' = w.failed
             /\ IF lo <= Len(data)
                THEN /\ runs' = RunsAfterTask(r, run, data)
                     /\ document' = LaunchCards(dom, tasks, 1)
                     /\ event' = [Event("validate", type) EXCEPT
                                     !.checks = w.log]
                ELSE /\ runs' = RunsAfterTask(r, run, data)
                     /\ document' = [dom EXCEPT !.retryBtn =
                                         updateRetryButton(w.failed)]
                     /\ event' = [Event("validate", type) EXCEPT
                                     !.checks = w.log, !.completed = TRUE,
                                     !.results = results,
                                     !.launched = run.launched,
                                     !.failed = run.failed,
                                     !.alone = run.alone,
                                     !.progress = Append(run.progress, report)]

\* Faulty variant: the run starts without resetting the tracker.
StartValidation_noReset ==
    /\ Len(runs) < MaxRuns
    /\ Len(uploadedData) > 0
    /\ runs' = Append([r \in DOMAIN runs |-> [runs[r] EXCEPT !.alone = FALSE]],
                      [NewRun(uploadedData) EXCEPT !.alone = (runs = <<>>)])
    /\ document' = LaunchCards(
           [document EXCEPT !.checks = [k \in DOMAIN uploadedData |->
                                           createProgressCard],
                            !.retryBtn = updateRetryButton(failedChecks)],
           NewRun(uploadedData).tasks, 1)
    /\ event' = Event("validate", "start")
    /\ UNCHANGED <<uploadedData, failedChecks, isRetrying, retries, faults,
                   throws, countryData>>

\* validateCoordinates up to its first await: the tracker is reset, the
\* progress cards are created anew, the button is refreshed and the first
\* batch is launched.  The click handler has no guard: a run may be
\* started while another is in flight.
StartValidation ==
    /\ Len(runs) < MaxRuns
    /\ Len(uploadedData) > 0
    /\ failedChecks' = <<>>
    /\ runs' = Append([r \in DOMAIN runs |-> [runs[r] EXCEPT !.alone = FALSE]],
                      [NewRun(uploadedData) EXCEPT !.alone = (runs = <<>>)])
    /\ document' = LaunchCards(
           [document EXCEPT !.checks = [k \in DOMAIN uploadedData |->
                                           createProgressCard],
                            !.retryBtn = updateRetryButton(<<>>)],
           NewRun(uploadedData).tasks, 1)
    /\ event' = Event("validate", "start")
    /\ UNCHANGED <<uploadedData, isRetrying, retries, faults, throws,
                   countryData>>

InFlightTask(r, j) ==
    /\ r \in DOMAIN runs
    /\ j \in 1..Len(runs[r].tasks)
    /\ runs[r].tasks[j].pc \in RemoteChecks

\* A remote call of a facility task settles.
TaskStep(r, j) ==
    /\ InFlightTask(r, j)
    /\ \E resp \in Responses(runs[r].tasks[j].pc) :
          LET task == runs[r].tasks[j]
              good == GoodResponse(task.pc, resp)
          IN  /\ good \/ faults < MaxFaults
              /\ faults' = IF good THEN faults ELSE faults + 1
              /\ AfterTask(ResumeFacility(World, task.facility, task.index,
                                          task.pc, resp),
                           r,
                           [runs[r] EXCEPT !.tasks[j].pc = NextRemote(task.pc)],
                           "task")
    /\ UNCHANGED <<isRetrying, retries, throws, countryData>>

\* An exception inside the try block of a facility task: the catch block
\* marks the facility and the task fulfils with it.
TaskCaught(r, j) ==
    /\ InFlightTask(r, j)
    /\ throws < MaxThrows
    /\ throws' = throws + 1
    /\ AfterTask(CatchFacility(World, runs[r].tasks[j].facility), r,
                 [runs[r] EXCEPT !.tasks[j].pc = "fulfilled",
                                 !.failed = @ \cup {runs[r].tasks[j].facility}],
                 "caught")
    /\ UNCHANGED <<isRetrying, retries, faults, countryData>>

\* An exception that escapes a facility task: its promise rejects.
TaskRejected(r, j) ==
    /\ InFlightTask(r, j)
    /\ throws < MaxThrows
    /\ throws' = throws + 1
    /\ AfterTask(World, r,
                 [runs[r] EXCEPT !.tasks[j].pc = "rejected",
                                 !.failed = @ \cup {runs[r].tasks[j].facility}],
                 "rejected")
    /\ UNCHANGED <<isRetrying, retries, faults, countryData>>

\* The remote checks in the order validateSingleFacility runs them.
remoteOrder == <<"country", "road", "building", "water", "population">>

\* Faulty variant: after a country lookup that did not pass, the facility
\* task ends without running the other checks.
RunChecks_stopOnFailure(w, f, index, j, resps) ==
    LET w1 == ResumeFacility(w, f, index, "country", resps["country"])
        w2 == ResumeFacility(w1, f, index, "road", resps["road"])
        w3 == ResumeFacility(w2, f, index, "building", resps["building"])
        w4 == ResumeFacility(w3, f, index, "water", resps["water"])
    IN  IF Truthy(w1.data[f].countryBoundary)
        THEN ResumeFacility(w4, f, index, "population", resps["population"])
        ELSE FinishFacility(w1, f, index)

RECURSIVE RunChecks(_, _, _, _, _)
RunChecks(w, f, index, j, resps) ==
    IF j > Len(remoteOrder) THEN w
    ELSE RunChecks(ResumeFacility(w, f, index, remoteOrder[j],
                                  resps[remoteOrder[j]]),
                   f, index, j + 1, resps)

GoodResponses ==
    [c \in RemoteChecks |-> CHOOSE resp \in Responses(c) : GoodResponse(c, resp)]

\* The answers one facility task gets when exactly one of them is a fault.
OneFaultResponses ==
    UNION {{[GoodResponses EXCEPT ![c] = resp] :
               resp \in {x \in Responses(c) : ~GoodResponse(c, x)}} :
           c \in RemoteChecks}

\* A facility task as one step, used where only the order in which the
\* tasks of a batch settle matters: validateSingleFacility(f, index) from
\* its first remote call to its return, no other task moving in between.
TaskRun(r, j) ==
    /\ InFlightTask(r, j)
    /\ runs[r].tasks[j].pc = "country"
    /\ \E resps \in {GoodResponses} \cup
                    (IF faults < MaxFaults THEN OneFaultResponses ELSE {}) :
          /\ faults' = IF resps = GoodResponses THEN faults ELSE faults + 1
          /\ AfterTask(RunChecks(World, runs[r].tasks[j].facility,
                                 runs[r].tasks[j].index, 1, resps),
                       r, [runs[r] EXCEPT !.tasks[j].pc = "fulfilled"], "task")
    /\ UNCHANGED <<isRetrying, retries, throws, countryData>>

\* ------------------------------------------------------ retry
\* The work list retryFailedChecks collects from the tracker: for...in over
\* the facility indices (ascending), then over the checks of each.
RECURSIVE CollectChecks(_, _)
CollectChecks(fc, S) ==
    IF S = {} THEN <<>>
    ELSE LET i == CHOOSE i \in S : \A j \in S : i <= j
         IN  [k \in 1..Len(fc[i]) |->
                 [facilityIndex |-> i, checkType |-> fc[i][k].checkType,
                  facility |-> fc[i][k].facility,
                  failureType |-> fc[i][k].failureType]]
             \o CollectChecks(fc, S \ {i})

\* Faulty variant: the last tracked check is left out of the work list.
checksToRetry_dropLast(fc) ==
    LET list == CollectChecks(fc, DOMAIN fc)
    IN  SubSeq(list, 1, Len(list) - 1)

\* The work list built from Object.entries(failedChecks) at the invocation.
checksToRetry(fc) == CollectChecks(fc, DOMAIN fc)

\* Faulty variant: the batch holds every item from lo on.
RetryBatchOf_all(lo, list) == lo .. Len(list)

\* checksToRetry.slice(i, Math.min(i + batchSize, checksToRetry.length)), as
\* positions of the work list.
RetryBatchOf(lo, list) == lo .. Min(lo + retryBatchSize - 1, Len(list))

\* batch.map(check => runApiCheck(..., true)) for the positions p..hi: every
\* item runs up to its first await.  The admin check awaits nothing, so it
\* runs to its end here; the others leave their remote call in flight.
RECURSIVE LaunchItems(_, _, _, _)
LaunchItems(w, list, p, hi) ==
    IF p > hi THEN w
    ELSE LaunchItems(
            IF list[p].checkType = "admin"
            THEN runApiCheck(w, list[p].facility, list[p].facilityIndex,
                             "admin", TRUE, Response("ok", FALSE, "none", 0))
            ELSE StartCheck(w, list[p].facilityIndex, list[p].checkType),
            list, p + 1, hi)

InFlight(list, lo) ==
    {p \in RetryBatchOf(lo, list) : list[p].checkType # "admin"}

RangeSeq(lo, hi) == [j \in 1..(hi - lo + 1) |-> lo + j - 1]

\* The retry record after the batch starting at lo was launched.
LaunchedRetry(rt, lo) ==
    [rt EXCEPT !.lo = lo, !.phase = "batch",
               !.pending = InFlight(rt.list, lo),
               !.ran = @ \o RangeSeq(lo, Min(lo + retryBatchSize - 1,
                                             Len(rt.list)))]

\* Faulty variant: no category is recomputed.
RecomputeCategories_none(data, list) == data

\* The end of retryFailedChecks: the category of every facility that had
\* a check in the work list is recomputed (the button is refreshed after
\* it, see AfterRetry).
RecomputeCategories(data, list) ==
    [k \in DOMAIN data |->
        IF \E p \in 1..Len(list) : list[p].facilityIndex = k
        THEN [data[k] EXCEPT !.category = determineFacilityCategory(data[k])]
        ELSE data[k]]

\* Faulty variant: the end of the invocation leaves the isRetrying flag set.
AfterRetry_keepFlag(w, rs, r, rt, type) ==
    LET ev == [Event("retry", type) EXCEPT !.checks = w.log,
                                           !.list = rt.list, !.ran = rt.ran]
    IN  IF rt.pending # {}
        THEN /\ uploadedData' = w.data
             /\ failedChecks' = w.failed
             /\ document' = w.dom
             /\ retries' = [rs EXCEPT ![r] = rt]
             /\ isRetrying' = TRUE
             /\ event' = ev
        ELSE IF rt.lo + retryBatchSize <= Len(rt.list)
        THEN /\ uploadedData' = w.data
             /\ failedChecks' = w.failed
             /\ document' = w.dom
             /\ retries' = [rs EXCEPT ![r] = [rt EXCEPT !.phase = "delay"]]
             /\ isRetrying' = TRUE
             /\ event' = ev
        ELSE /\ uploadedData' = RecomputeCategories(w.data, rt.list)
             /\ failedChecks' = w.failed
             /\ document' = [w.dom EXCEPT !.retryBtn =
                                 updateRetryButton(w.failed)]
             /\ retries' = RemoveAt(rs, r)
             /\ isRetrying' = TRUE
             /\ event' = [ev EXCEPT !.completed = TRUE]

\* The retry rt, at position r of the invocations rs, after its batch moved:
\* when the batch has settled, either the delay before the next batch
\* starts or the invocation ends.
AfterRetry(w, rs, r, rt, type) ==
    LET ev == [Event("retry", type) EXCEPT !.checks = w.log,
                                           !.list = rt.list, !.ran = rt.ran]
    IN  IF rt.pending # {}
        THEN /\ uploadedData' = w.data
             /\ failedChecks' = w.failed
             /\ document' = w.dom
             /\ retries' = [rs EXCEPT ![r] = rt]
             /\ isRetrying' = TRUE
             /\ event' = ev
        ELSE IF rt.lo + retryBatchSize <= Len(rt.list)
        THEN /\ uploadedData' = w.data
             /\ failedChecks' = w.failed
             /\ document' = w.dom
             /\ retries' = [rs EXCEPT ![r] = [rt EXCEPT !.phase = "delay"]]
             /\ isRetrying' = TRUE
             /\ event' = ev
        ELSE /\ uploadedData' = RecomputeCategories(w.data, rt.list)
             /\ failedChecks' = w.failed
             /\ document' = [w.dom EXCEPT !.retryBtn =
                                 updateRetryButton(w.failed)]
             /\ retries' = RemoveAt(rs, r)
             /\ isRetrying' = FALSE
             /\ event' = [ev EXCEPT !.completed = TRUE]

\* Faulty variant: the guard does not look at the isRetrying flag.
RetryGuard_noFlag == ~(countFailedChecks(failedChecks) = 0)

\* The guard of retryFailedChecks.
RetryGuard == ~(isRetrying \/ countFailedChecks(failedChecks) = 0)

\* A click on the retry button: retryFailedChecks up to its first await.
RetryInvoke ==
    IF ~RetryGuard
    THEN /\ event' = Event("retry", "refused")
         /\ UNCHANGED <<uploadedData, failedChecks, isRetrying, runs, retries,
                        faults, throws, document, countryData>>
    ELSE LET list == checksToRetry(failedChecks)
             rt == LaunchedRetry([list |-> list, lo |-> 1, phase |-> "batch",
                                  pending |-> {}, ran |-> <<>>], 1)
             w == LaunchItems(
                      [World EXCEPT !.dom.retryBtn =
                          [disabled |-> TRUE, text |-> "Retrying...",
                           count |-> 0]],
                      list, 1, Min(retryBatchSize, Len(list)))
         IN  /\ AfterRetry(w, Append(retries, rt), Len(retries) + 1, rt,
                            "start")
             /\ UNCHANGED <<runs, faults, throws, countryData>>

\* The remote call of a retried check settles, with at most budget
\* responses over the behaviour that are not passing ones.
RetryStepWithin(r, p, budget) ==
    /\ r \in DOMAIN retries
    /\ retries[r].phase = "batch"
    /\ p \in retries[r].pending
    /\ \E resp \in Responses(retries[r].list[p].checkType) :
          LET check == retries[r].list[p]
              good == GoodResponse(check.checkType, resp)
          IN  /\ good \/ faults < budget
              /\ faults' = IF good THEN faults ELSE faults + 1
              /\ AfterRetry(runApiCheck(World, check.facility,
                                        check.facilityIndex, check.checkType,
                                        TRUE, resp),
                            retries, r,
                            [retries[r] EXCEPT !.pending = @ \ {p}], "item")
    /\ UNCHANGED <<runs, throws, countryData>>

\* The remote call of a retried check settles.
RetryStep(r, p) == RetryStepWithin(r, p, MaxFaults)

\* The delay between two retry batches elapses: the next batch is launched.
RetryDelayElapsed(r) ==
    /\ r \in DOMAIN retries
    /\ retries[r].phase = "delay"
    /\ LET lo == retries[r].lo + retryBatchSize
           list == retries[r].list
       IN  AfterRetry(LaunchItems(World, list, lo,
                                  Min(lo + retryBatchSize - 1, Len(list))),
                      retries, r, LaunchedRetry(retries[r], lo), "delay")
    /\ UNCHANGED <<runs, faults, throws, countryData>>

\* ------------------------------------------------------ specification
\* The uploaded collection with n facilities: the facilities 2k and 2k+1
\* share their coordinates, the first one has its own.
Layout(n) == [k \in 1..n |-> NewFacility(k \div 2, 0)]

\* The uploaded collections of Spec: one facility, or up to MaxFac with the
\* first two sharing their coordinates.
Datasets ==
    {[k \in 1..n |-> NewFacility((k - 1) \div 2, 0)] : n \in 1..MaxFac}

Init ==
    /\ uploadedData \in Datasets
    /\ failedChecks = <<>>
    /\ isRetrying = FALSE
    /\ runs = <<>>
    /\ retries = <<>>
    /\ faults = 0
    /\ throws = 0
    /\ countryData = NoPayload
    /\ document = NewDocument
    /\ event = Event("none", "init")

Next ==
    \/ StartValidation
    \/ \E r \in DOMAIN runs : \E j \in 1..Len(runs[r].tasks) : TaskStep(r, j)
    \/ RetryInvoke
    \/ \E r \in DOMAIN retries : \E p \in retries[r].pending : RetryStep(r, p)

\* Validation and retry at the level of single checks, on a small
\* collection, with remote services that may fail.  The budget of faults
\* keeps the tracker below one retry batch, so no retry reaches the delay
\* between two batches.
Spec == Init /\ [][Next]_vars

InitBatch ==
    /\ uploadedData \in {Layout(n) : n \in 1..MaxFacBatch}
    /\ failedChecks = <<>>
    /\ isRetrying = FALSE
    /\ runs = <<>>
    /\ retries = <<>>
    /\ faults = MaxFaults
    /\ throws = 0
    /\ countryData = NoPayload
    /\ document = NewDocument
    /\ event = Event("none", "init")

NextBatch ==
    \/ StartValidation
    \/ \E r \in DOMAIN runs : \E j \in 1..Len(runs[r].tasks) : TaskRun(r, j)
    \/ \E r \in DOMAIN runs : \E j \in 1..Len(runs[r].tasks) : TaskCaught(r, j)
    \/ \E r \in DOMAIN runs : \E j \in 1..Len(runs[r].tasks) : TaskRejected(r, j)

\* Validation runs over collections of more than one batch, a facility
\* task being one step: the remote services answer every call with a passing
\* response (the budget of faults is spent) and facility tasks may raise an
\* exception.
SpecBatch == InitBatch /\ [][NextBatch]_vars

\* The responses on which every remote check, and the admin check, is
\* evaluated and fails.
NegativeResponses ==
    [c \in RemoteChecks |->
        CASE c = "country" -> Response("ok", FALSE, "mismatch", 0)
          [] c = "water" -> Response("ok", TRUE, "none", 0)
          [] c = "population" -> Response("ok", FALSE, "none", populationThreshold)
          [] OTHER -> Response("ok", FALSE, "none", 0)]

\* The state a validation run leaves when every check of the first
\* facility was evaluated and failed and every check of the others passed.
RECURSIVE ValidatedFrom(_, _)
ValidatedFrom(w, k) ==
    IF k > Len(w.data) THEN w
    ELSE ValidatedFrom(
            RunChecks(w, k, k, 1,
                      IF k = 1 THEN NegativeResponses ELSE GoodResponses),
            k + 1)

InitRetry ==
    \E w \in {ValidatedFrom(
                  [data |-> Layout(MaxFac), failed |-> <<>>,
                   dom |-> [NewDocument EXCEPT
                               !.checks = [k \in 1..MaxFac |->
                                              createProgressCard]],
                   log |-> <<>>], 1)} :
        /\ uploadedData = w.data
        /\ failedChecks = w.failed
        /\ document = [w.dom EXCEPT
                          !.retryBtn = updateRetryButton(w.failed),
                          !.progressText = <<MaxFac, MaxFac>>]
        /\ isRetrying = FALSE
        /\ runs = <<>>
        /\ retries = <<>>
        /\ faults = 0
        /\ throws = 0
        /\ countryData = NoPayload
        /\ event = Event("none", "init")

NextRetry ==
    \/ RetryInvoke
    \/ \E r \in DOMAIN retries : \E p \in retries[r].pending : RetryStep(r, p)
    \/ \E r \in DOMAIN retries : RetryDelayElapsed(r)

\* Retries after a validation run that left six failed checks in the
\* tracker: a retry of more than one batch.
SpecRetry == InitRetry /\ [][NextRetry]_vars

\* determineFacilityCategory as a function: a facility with any stored
\* check results (each passing, failing or absent) is classified.
StoredResults ==
    {NoResult, Result(TRUE, "result", 0), Result(FALSE, "result", 0)}

InitClassify ==
    /\ uploadedData \in
         {<<[NewFacility(0, 0) EXCEPT
                !.countryBoundary = c, !.adminAreaMatch = a,
                !.roadDistance = r, !.buildingDistance = b,
                !.waterCheck = w, !.populationDensity = p,
                !.duplicateCheck = d]>> :
            c \in StoredResults, a \in StoredResults, r \in StoredResults,
            b \in StoredResults, w \in StoredResults, p \in StoredResults,
            d \in StoredResults}
    /\ failedChecks = <<>>
    /\ isRetrying = FALSE
    /\ runs = <<>>
    /\ retries = <<>>
    /\ faults = 0
    /\ throws = 0
    /\ countryData = NoPayload
    /\ document = NewDocument
    /\ event = Event("none", "init")

\* f.category = determineFacilityCategory(f)
Classify(k) ==
    /\ event.type = "init"
    /\ uploadedData' = [uploadedData EXCEPT
           ![k].category = determineFacilityCategory(uploadedData[k])]
    /\ event' = Event("classify", "classified")
    /\ UNCHANGED <<failedChecks, isRetrying, runs, retries, faults, throws,
                   document, countryData>>

NextClassify == \E k \in DOMAIN uploadedData : Classify(k)

SpecClassify == InitClassify /\ [][NextClassify]_vars

\* ------------------------------------------------------ tracker alone
TrackChecks == {checkTypes[k] : k \in 1..MaxTrackChecks}

\* A call addFailedCheck(facilityIndex, checkType, facility, failureType).
TrackerAdd(facilityIndex, checkType, facility, failureType) ==
    /\ LET w == Track(World, facilityIndex, checkType, facility, failureType)
       IN  failedChecks' = w.failed /\ document' = w.dom
    /\ event' = [Event("tracker", "add") EXCEPT
                    !.list = <<[facilityIndex |-> facilityIndex,
                                checkType |-> checkType,
                                facility |-> facility,
                                failureType |-> failureType]>>,
                    !.hit = HasCheck(failedChecks, facilityIndex, checkType)]
    /\ UNCHANGED <<uploadedData, isRetrying, runs, retries, faults, throws,
                   countryData>>

\* A call removeFailedCheck(facilityIndex, checkType).
TrackerRemove(facilityIndex, checkType) ==
    /\ LET w == Untrack(World, facilityIndex, checkType)
       IN  failedChecks' = w.failed /\ document' = w.dom
    /\ event' = [Event("tracker", "remove") EXCEPT
                    !.list = <<[facilityIndex |-> facilityIndex,
                                checkType |-> checkType]>>,
                    !.hit = HasCheck(failedChecks, facilityIndex, checkType)]
    /\ UNCHANGED <<uploadedData, isRetrying, runs, retries, faults, throws,
                   countryData>>

InitTracker ==
    /\ uploadedData = Layout(MaxTrackFac)
    /\ failedChecks = <<>>
    /\ isRetrying = FALSE
    /\ runs = <<>>
    /\ retries = <<>>
    /\ faults = 0
    /\ throws = 0
    /\ countryData = NoPayload
    /\ document = NewDocument
    /\ event = Event("none", "init")

NextTracker ==
    \/ \E i \in 1..MaxTrackFac, c \in TrackChecks, f \in 1..MaxTrackFac,
          kind \in {"validation", "api"} : TrackerAdd(i, c, f, kind)
    \/ \E i \in 1..MaxTrackFac, c \in TrackChecks : TrackerRemove(i, c)

\* Any sequence of addFailedCheck and removeFailedCheck calls on the
\* tracker, from the empty tracker.
SpecTracker == InitTracker /\ [][NextTracker]_vars

\* ------------------------------------------------------ scenario load
\* A row of a scenario file, as handleScenarioUpload reads it: country,
\* admin, duplicate and water tell whether the cell is "Pass"; road,
\* building and population whether the cell is not empty; score is the
\* Score cell ("" when empty).
ScenarioRows ==
    [country : BOOLEAN, admin : BOOLEAN, duplicate : BOOLEAN,
     road : BOOLEAN, building : BOOLEAN, water : BOOLEAN,
     population : BOOLEAN, score : Categories \cup {""}]

\* The facility object a scenario row is normalised to.
ScenarioFacility(row) ==
    [NewFacility(0, 0) EXCEPT
        !.category = IF row.score = "" THEN "Unknown" ELSE row.score,
        !.countryBoundary = Result(row.country, "scenario", 0),
        !.adminAreaMatch = Result(row.admin, "scenario", 0),
        !.duplicateCheck = Result(row.duplicate, "scenario", 0),
        !.roadDistance = Result(row.road, "scenario", 0),
        !.buildingDistance = Result(row.building, "scenario", 0),
        !.waterCheck = Result(~row.water, "scenario", 0),
        !.populationDensity = Result(row.population, "scenario", 0),
        !.error = FALSE]

\* The complete callback of handleScenarioUpload for a file that is not
\* empty.
handleScenarioUpload(rows) ==
    /\ Len(rows) > 0
    /\ uploadedData' = [k \in 1..Len(rows) |-> ScenarioFacility(rows[k])]
    /\ event' = Event("scenario", "loaded")
    /\ UNCHANGED <<failedChecks, isRetrying, runs, retries, faults, throws,
                   document, countryData>>

InitScenario ==
    /\ uploadedData = <<>>
    /\ failedChecks = <<>>
    /\ isRetrying = FALSE
    /\ runs = <<>>
    /\ retries = <<>>
    /\ faults = 0
    /\ throws = 0
    /\ countryData = NoPayload
    /\ document = NewDocument
    /\ event = Event("none", "init")

NextScenario ==
    \E n \in 1..MaxScenarioRows : \E rows \in [1..n -> ScenarioRows] :
        handleScenarioUpload(rows)

\* Scenario files loaded one after the other.
SpecScenario == InitScenario /\ [][NextScenario]_vars

\* ------------------------------------------------------ run to completion
InitLive ==
    /\ uploadedData \in {Layout(n) : n \in 1..MaxFacBatch}
    /\ failedChecks = <<>>
    /\ isRetrying = FALSE
    /\ runs = <<>>
    /\ retries = <<>>
    /\ faults = MaxFaults - 1
    /\ throws = 0
    /\ countryData = NoPayload
    /\ document = NewDocument
    /\ event = Event("none", "init")

NextLive ==
    \/ StartValidation
    \/ \E r \in DOMAIN runs : \E j \in 1..Len(runs[r].tasks) : TaskRun(r, j)

\* What a TaskRun step does to the runs in flight: a facility task that
\* waits for its remote calls settles.  Every such step changes runs, which
\* is the subscript of the fairness condition below.
TaskSettles ==
    \E r \in DOMAIN runs : \E j \in 1..Len(runs[r].tasks) :
        /\ InFlightTask(r, j)
        /\ runs' = RunsAfterTask(r, [runs[r] EXCEPT !.tasks[j].pc = "fulfilled"],
                                 uploadedData)

\* Validation runs over collections of more than one batch with remote
\* services that may fail (the budget of faults but one is spent), every
\* remote call settling: the event loop runs the continuation of every
\* settled promise, so a facility task that waits is resumed and, its
\* later calls settling too, comes to its end.
SpecLive == InitLive /\ [][NextLive]_vars /\ WF_runs(TaskSettles)

\* ------------------------------------------------------ population check
\* A payload of the population service: an object with a population, or
\* one without the field.
PopPayloads ==
    {[population |-> p] : p \in 0..MaxPopulation} \cup {[error |-> "none"]}

\* popData.population || 0
PopulationOf(popData) ==
    IF "population" \in DOMAIN popData THEN popData.population ELSE 0

\* The result the population case of runApiCheck stores (frontend/script.js).
populationDensity(popData) ==
    Result(PopulationOf(popData) > populationThreshold, "result",
           PopulationOf(popData))

\* The result the population check of validateSingleFacility stores in
\* unnamed/part_000.
populationDensityPart000(popData) ==
    Result(PopulationOf(popData) > 0, "result", PopulationOf(popData))

\* The population check of one of the two implementations on a payload.
PopulationCheck(impl, popData) ==
    /\ uploadedData' = [uploadedData EXCEPT ![1].populationDensity =
           IF impl = "frontend/script.js" THEN populationDensity(popData)
           ELSE populationDensityPart000(popData)]
    /\ event' = [Event("population", impl) EXCEPT !.list = <<popData>>]
    /\ UNCHANGED <<failedChecks, isRetrying, runs, retries, faults, throws,
                   document, countryData>>

InitPopulation ==
    /\ uploadedData = Layout(1)
    /\ failedChecks = <<>>
    /\ isRetrying = FALSE
    /\ runs = <<>>
    /\ retries = <<>>
    /\ faults = 0
    /\ throws = 0
    /\ countryData = NoPayload
    /\ document = NewDocument
    /\ event = Event("none", "init")

NextPopulation ==
    \E impl \in {"frontend/script.js", "unnamed/part_000"},
       popData \in PopPayloads : PopulationCheck(impl, popData)

\* The population check of either implementation, on any payload.
SpecPopulation == InitPopulation /\ [][NextPopulation]_vars

\* ------------------------------------------------------ duplicates
\* Coordinates in units of the duplicate threshold: two of them are apart
\* by less than the threshold on an axis when they are equal on it.
Coordinates ==
    {c \in (0..MaxCoord) \X (0..MaxCoord) : c[1] + c[2] <= MaxCoord}

InitDuplicates ==
    /\ uploadedData \in
          {[k \in 1..MaxFacBatch |-> NewFacility(c[k][1], c[k][2])] :
              c \in [1..MaxFacBatch -> Coordinates]}
    /\ failedChecks = <<>>
    /\ isRetrying = FALSE
    /\ runs = <<>>
    /\ retries = <<>>
    /\ faults = MaxFaults
    /\ throws = 0
    /\ countryData = NoPayload
    /\ document = NewDocument
    /\ event = Event("none", "init")

NextDuplicates ==
    \/ StartValidation
    \/ \E r \in DOMAIN runs : \E j \in 1..Len(runs[r].tasks) : TaskRun(r, j)

\* Validation runs over collections of more than one batch whose
\* facilities lie at any of the coordinates, the remote services answering
\* every call with a passing response.
SpecDuplicates == InitDuplicates /\ [][NextDuplicates]_vars

\* ------------------------------------------------------ admin names
\* A name is a sequence of characters.  The characters stand for a
\* lowercase letter ("a", "b"), an uppercase letter ("A"), a letter with a
\* diacritic in one code point ("a'"), a white-space character (" ") and a
\* combining diacritical mark on its own ("'").
Chars == {"a", "b", "A", "a'", " ", "'"}

Names == UNION {[1..n -> Chars] : n \in 0..MaxNameLen}

\* The Admin1 cell of an uploaded row: a name, or no such column.
Admin1Values ==
    {[defined |-> TRUE, value |-> str] : str \in Names}
    \cup {[defined |-> FALSE, value |-> <<>>]}

\* facility.Admin1 || ""
OrEmpty(cell) == IF cell.defined THEN cell.value ELSE <<>>

toLowerCase(str) ==
    [k \in DOMAIN str |-> IF str[k] = "A" THEN "a" ELSE str[k]]

RECURSIVE trimStart(_)
trimStart(str) ==
    IF str # <<>> /\ Head(str) = " " THEN trimStart(Tail(str)) ELSE str

RECURSIVE trimEnd(_)
trimEnd(str) ==
    IF str # <<>> /\ str[Len(str)] = " "
    THEN trimEnd(SubSeq(str, 1, Len(str) - 1))
    ELSE str

trim(str) == trimEnd(trimStart(str))

\* str ? str.toLowerCase().replace(/\s+/g, "").trim() : ""
normalize(str) ==
    IF str = <<>> THEN <<>>
    ELSE trim(SelectSeq(toLowerCase(str), LAMBDA c : c # " "))

\* str.normalize("NFD").replace(/[\u0300-\u036f]/g, ""): a letter with a
\* diacritic decomposes into the letter and a combining mark, and the
\* combining marks are removed.
RECURSIVE stripDiacritics(_)
stripDiacritics(str) ==
    IF str = <<>> THEN <<>>
    ELSE (CASE Head(str) = "'" -> <<>>
            [] Head(str) = "a'" -> <<"a">>
            [] OTHER -> <<Head(str)>>)
         \o stripDiacritics(Tail(str))

startsWith(a, b) == Len(b) <= Len(a) /\ SubSeq(a, 1, Len(b)) = b

\* Faulty variant: empty names are compared like the others.
isSimilar_noGuard(a, b) ==
    LET a1 == trim(stripDiacritics(toLowerCase(a)))
        b1 == trim(stripDiacritics(toLowerCase(b)))
    IN  a1 = b1 \/ startsWith(a1, b1) \/ startsWith(b1, a1)

isSimilar(a, b) ==
    IF a = <<>> \/ b = <<>> THEN FALSE
    ELSE LET a1 == trim(stripDiacritics(toLowerCase(a)))
             b1 == trim(stripDiacritics(toLowerCase(b)))
         IN  a1 = b1 \/ startsWith(a1, b1) \/ startsWith(b1, a1)

\* The comparison of the admin case of runApiCheck, on the Admin1 cell of
\* the facility and the admin name of the country payload.
admin1Match(Admin1, osmAdmin1) ==
    isSimilar(normalize(OrEmpty(Admin1)), normalize(osmAdmin1))

\* The admin case on a facility whose country payload is present.
AdminMatch(Admin1, osmAdmin1) ==
    /\ event.type = "init"
    /\ uploadedData' = [uploadedData EXCEPT ![1].adminAreaMatch =
           Result(admin1Match(Admin1, osmAdmin1), "result", 0)]
    /\ event' = [Event("admin", "matched") EXCEPT
                    !.list = <<[Admin1 |-> Admin1, osmAdmin1 |-> osmAdmin1]>>]
    /\ UNCHANGED <<failedChecks, isRetrying, runs, retries, faults, throws,
                   document, countryData>>

InitAdmin ==
    /\ uploadedData = Layout(1)
    /\ failedChecks = <<>>
    /\ isRetrying = FALSE
    /\ runs = <<>>
    /\ retries = <<>>
    /\ faults = 0
    /\ throws = 0
    /\ countryData = NoPayload
    /\ document = NewDocument
    /\ event = Event("none", "init")

NextAdmin ==
    \E Admin1 \in Admin1Values, osmAdmin1 \in Names :
        AdminMatch(Admin1, osmAdmin1)

\* The admin comparison, once, on any uploaded Admin1 and any admin name of
\* the country payload.
SpecAdmin == InitAdmin /\ [][NextAdmin]_vars

\* ------------------------------------------------------ file import
\* A cell of a parsed row: the text of the column, or undefined when the
\* row has no such field.  The parser delivers every cell as a string.
Cells ==
    {[defined |-> FALSE, value |-> ""], [defined |-> TRUE, value |-> ""],
     [defined |-> TRUE, value |-> "0"]}

\* The rows Papa.parse delivers for a file (results.data); line is the
\* position of the row in the file.
ParsedFiles ==
    UNION {{[k \in 1..n |-> [line |-> k, Name |-> cells[k][1],
                             x |-> cells[k][2], y |-> cells[k][3]]] :
               cells \in [1..n -> Cells \X Cells \X Cells]} :
           n \in 0..MaxRows}

\* A cell read as a condition: undefined and the empty string are falsy,
\* every other string is truthy.
TruthyCell(cell) == cell.defined /\ cell.value # ""

\* Faulty variant: the y column is not looked at.
KeepRow_noY(r) == TruthyCell(r.Name) /\ TruthyCell(r.x)

\* (r) => r.Name && r.x && r.y
KeepRow(r) == TruthyCell(r.Name) /\ TruthyCell(r.x) /\ TruthyCell(r.y)

\* The complete callback of handleFileUpload.
handleFileUpload(data) ==
    /\ event.type = "init"
    /\ uploadedData' = SelectSeq(data, KeepRow)
    /\ event' = [Event("import", "complete") EXCEPT !.list = data]
    /\ UNCHANGED <<failedChecks, isRetrying, runs, retries, faults, throws,
                   document, countryData>>

\* The page before an import: no collection yet, or the rows of an earlier
\* import.
InitImport ==
    /\ uploadedData \in
          {<<>>, <<[line |-> 0, Name |-> [defined |-> TRUE, value |-> "0"],
                    x |-> [defined |-> TRUE, value |-> "0"],
                    y |-> [defined |-> TRUE, value |-> "0"]]>>}
    /\ failedChecks = <<>>
    /\ isRetrying = FALSE
    /\ runs = <<>>
    /\ retries = <<>>
    /\ faults = 0
    /\ throws = 0
    /\ countryData = NoPayload
    /\ document = NewDocument
    /\ event = Event("none", "init")

NextImport == \E data \in ParsedFiles : handleFileUpload(data)

\* The import of one file.
SpecImport == InitImport /\ [][NextImport]_vars

\* ------------------------------------------------------ retry after failed calls
\* The state a validation run leaves when the checks of the first facility
\* got the responses first and every check of the others passed.
RECURSIVE ValidatedWith(_, _, _)
ValidatedWith(w, k, first) ==
    IF k > Len(w.data) THEN w
    ELSE ValidatedWith(
            RunChecks(w, k, k, 1, IF k = 1 THEN first ELSE GoodResponses),
            k + 1, first)

InitRetryApi ==
    \E w \in {ValidatedWith(
                  [data |-> Layout(MaxFac), failed |-> <<>>,
                   dom |-> [NewDocument EXCEPT
                               !.checks = [k \in 1..MaxFac |->
                                              createProgressCard]],
                   log |-> <<>>], 1,
                  [c \in RemoteChecks |->
                      Response("http", FALSE, "none", 0)])} :
        /\ uploadedData = w.data
        /\ failedChecks = w.failed
        /\ document = [w.dom EXCEPT
                          !.retryBtn = updateRetryButton(w.failed),
                          !.progressText = <<MaxFac, MaxFac>>]
        /\ isRetrying = FALSE
        /\ runs = <<>>
        /\ retries = <<>>
        /\ faults = 0
        /\ throws = 0
        /\ countryData = NoPayload
        /\ event = Event("none", "init")

\* Retries after a validation run during which every remote call of the
\* first facility failed, its country lookup included: the facility has no
\* country payload.
SpecRetryApi == InitRetryApi /\ [][NextRetry]_vars

\* ------------------------------------------------------ shared country payload
\* validateCoordinates of unnamed/part_000: the facility tasks of a batch
\* run concurrently and keep the payload of the country lookup in the one
\* module-level variable countryData.  The collections of this
\* specification fit in one batch.
batchSizePart000 == 10

SharedNames == {<<"a">>, <<"b">>}

\* What the reverse-geocoding endpoint answers to the lookup of facility
\* index: the call rejects ("http"), its body is the JSON null ("null"), or
\* it is an address whose admin name is osmAdmin1.
CountryResponses(index) ==
    {[kind |-> k, owner |-> index, osmAdmin1 |-> <<>>] : k \in {"http", "null"}}
    \cup {[kind |-> "ok", owner |-> index, osmAdmin1 |-> name] :
             name \in SharedNames}

\* countryData after the try block of the country check: the assignment
\* happens once the body is parsed, a rejected call leaves the variable as
\* it was.
CountryDataAfter(global, resp) ==
    CASE resp.kind = "ok" ->
           [owner |-> resp.owner, osmAdmin1 |-> resp.osmAdmin1]
      [] resp.kind = "null" -> NoPayload
      [] OTHER -> global

StartValidationPart000 ==
    /\ runs = <<>>
    /\ Len(uploadedData) \in 1..batchSizePart000
    /\ runs' = <<[lo |-> 1,
                  tasks |-> [j \in DOMAIN uploadedData |->
                                [facility |-> j, index |-> j,
                                 pc |-> "country"]],
                  results |-> <<>>,
                  launched |-> [j \in DOMAIN uploadedData |-> <<j, j>>],
                  failed |-> {}, alone |-> TRUE, progress |-> <<>>]>>
    /\ document' = [document EXCEPT
                       !.checks = [k \in DOMAIN uploadedData |->
                                      [createProgressCard EXCEPT
                                          !["country"].status = "loading"]]]
    /\ event' = Event("validate", "start")
    /\ UNCHANGED <<uploadedData, failedChecks, isRetrying, retries, faults,
                   throws, countryData>>

\* The country lookup of a facility task settles: the task stores the
\* country result and runs, with no await in between, the admin check and
\* the duplicate check, then makes its next remote call.
CountrySettlesPart000(j) ==
    /\ runs # <<>>
    /\ j \in 1..Len(runs[1].tasks)
    /\ runs[1].tasks[j].pc = "country"
    /\ \E resp \in CountryResponses(j) :
          /\ countryData' = CountryDataAfter(countryData, resp)
          /\ uploadedData' =
                [uploadedData EXCEPT
                    ![j].countryBoundary =
                        Result(resp.kind = "ok",
                               IF resp.kind = "ok" THEN "result"
                               ELSE "Country check failed", 0),
                    ![j].adminAreaMatch =
                        Result(admin1Match(
                                   uploadedData[j].Admin1,
                                   CountryDataAfter(countryData,
                                                    resp).osmAdmin1),
                               "result", 0),
                    ![j].duplicateCheck =
                        Result(Duplicates(uploadedData, j, j) = {}, "result",
                               Cardinality(Duplicates(uploadedData, j, j)))]
          /\ document' =
                [document EXCEPT
                    !.checks[j]["country"].status =
                        IF resp.kind = "ok" THEN "success" ELSE "failed",
                    !.checks[j]["admin"].status =
                        IF admin1Match(uploadedData[j].Admin1,
                                       CountryDataAfter(countryData,
                                                        resp).osmAdmin1)
                        THEN "success" ELSE "failed",
                    !.checks[j]["road"].status = "loading"]
          /\ event' = [Event("validate", "country") EXCEPT
                          !.ran = <<j>>,
                          !.hit = (resp.kind = "ok"),
                          !.list = IF CountryDataAfter(countryData, resp)
                                        = NoPayload
                                   THEN <<>>
                                   ELSE <<CountryDataAfter(countryData,
                                                           resp)>>]
    /\ runs' = [runs EXCEPT ![1].tasks[j].pc = "road"]
    /\ UNCHANGED <<failedChecks, isRetrying, retries, faults, throws>>

\* The facility after its road, building, water and population checks,
\* each answered with a passing response, and the category.
RestPasses(f) ==
    [f EXCEPT !.roadDistance = Result(TRUE, "result", 0),
              !.buildingDistance = Result(TRUE, "result", 0),
              !.waterCheck = Result(FALSE, "result", 0),
              !.populationDensity = Result(TRUE, "result",
                                           populationThreshold + 1),
              !.category = determineFacilityCategory(
                  [f EXCEPT !.roadDistance = Result(TRUE, "result", 0),
                            !.buildingDistance = Result(TRUE, "result", 0),
                            !.waterCheck = Result(FALSE, "result", 0),
                            !.populationDensity =
                                Result(TRUE, "result",
                                       populationThreshold + 1)])]

\* The remaining remote calls of a facility task settle and the task
\* returns; with the last task of the batch the run ends.
TaskEndsPart000(j) ==
    /\ runs # <<>>
    /\ j \in 1..Len(runs[1].tasks)
    /\ runs[1].tasks[j].pc = "road"
    /\ uploadedData' = [uploadedData EXCEPT ![j] = RestPasses(@)]
    /\ IF \A i \in 1..Len(runs[1].tasks) :
              i # j => runs[1].tasks[i].pc = "fulfilled"
       THEN /\ runs' = <<>>
            /\ document' =
                  [updateOverallProgress(document, Len(uploadedData),
                                         Len(uploadedData))
                      EXCEPT !.checks[j] =
                                 [c \in DOMAIN @ |->
                                     [@[c] EXCEPT !.status =
                                         IF @ \in {"pending", "loading"}
                                         THEN "success" ELSE @]]]
            /\ event' = [Event("validate", "task") EXCEPT
                            !.completed = TRUE]
       ELSE /\ runs' = [runs EXCEPT ![1].tasks[j].pc = "fulfilled"]
            /\ document' =
                  [document EXCEPT
                      !.checks[j] =
                          [c \in DOMAIN @ |->
                              [@[c] EXCEPT !.status =
                                  IF @ \in {"pending", "loading"}
                                  THEN "success" ELSE @]]]
            /\ event' = Event("validate", "task")
    /\ UNCHANGED <<failedChecks, isRetrying, retries, faults, throws,
                   countryData>>

InitShared ==
    /\ uploadedData \in
          {[k \in 1..n |->
                NewFacility(k, 0)
                    @@ [Admin1 |-> [defined |-> TRUE, value |-> names[k]]]] :
              n \in 1..MaxShared, names \in [1..MaxShared -> SharedNames]}
    /\ failedChecks = <<>>
    /\ isRetrying = FALSE
    /\ runs = <<>>
    /\ retries = <<>>
    /\ faults = 0
    /\ throws = 0
    /\ countryData = NoPayload
    /\ document = NewDocument
    /\ event = Event("none", "init")

NextShared ==
    \/ StartValidationPart000
    \/ \E j \in 1..MaxShared : CountrySettlesPart000(j)
    \/ \E j \in 1..MaxShared : TaskEndsPart000(j)

\* Validation runs of unnamed/part_000 on a collection of one batch, every
\* country lookup failing or answering with any of the admin names.
SpecShared == InitShared /\ [][NextShared]_vars

\* ------------------------------------------------------ repeated retries
InitRetryAgain ==
    \E c \in RemoteChecks :
    \E w \in {ValidatedWith(
                  [data |-> Layout(1), failed |-> <<>>,
                   dom |-> [NewDocument EXCEPT
                               !.checks = [k \in 1..1 |->
                                              createProgressCard]],
                   log |-> <<>>], 1,
                  [GoodResponses EXCEPT ![c] = NegativeResponses[c]])} :
        /\ uploadedData = w.data
        /\ failedChecks = w.failed
        /\ document = [w.dom EXCEPT
                          !.retryBtn = updateRetryButton(w.failed),
                          !.progressText = <<1, 1>>]
        /\ isRetrying = FALSE
        /\ runs = <<>>
        /\ retries = <<>>
        /\ faults = 0
        /\ throws = 0
        /\ countryData = NoPayload
        /\ event = Event("none", "init")

NextRetryAgain ==
    \/ RetryInvoke
    \/ \E r \in DOMAIN retries : \E p \in retries[r].pending :
          RetryStepWithin(r, p, MaxRetried)

\* Retry after retry of the one remote check that failed in the validation
\* run of one facility (and of the admin check, when it was the country
\* lookup): faults counts the retried calls of the check that failed again.
SpecRetryAgain == InitRetryAgain /\ [][NextRetryAgain]_vars

\* ------------------------------------------------------ import after a run
\* A facility reference of the tracker is a position of uploadedData.  An
\* import replaces uploadedData by an array of new objects; the objects of
\* the earlier import live on where the tracker references them.  Such a
\* reference is written as a negative number: the object that was at that
\* position of an earlier collection.
Outdated(fc) ==
    [i \in DOMAIN fc |->
        [k \in DOMAIN fc[i] |->
            [fc[i][k] EXCEPT !.facility = IF @ > 0 THEN 0 - @ ELSE @]]]

\* The complete callback of handleFileUpload for a file of n rows that all
\* pass the filter, no validation run being in flight: the tracker, the
\* retry button and the progress cards are left as they are.
ImportFacilities(n) ==
    /\ runs = <<>>
    /\ retries = <<>>
    /\ uploadedData' = [k \in 1..n |-> NewFacility((k - 1) \div 2, 0)]
    /\ failedChecks' = Outdated(failedChecks)
    /\ event' = Event("import", "complete")
    /\ UNCHANGED <<isRetrying, runs, retries, faults, throws, document,
                   countryData>>

NextReimport ==
    \/ StartValidation
    \/ \E r \in DOMAIN runs : \E j \in 1..Len(runs[r].tasks) : TaskRun(r, j)
    \/ \E n \in 1..MaxFac : ImportFacilities(n)

\* Validation runs and file imports in any order, an import coming when no
\* run is in flight; a facility task is one step and the remote services
\* may fail.
SpecReimport == Init /\ [][NextReimport]_vars

\* ------------------------------------------------------ retry to completion
\* The invocations in flight after the retry rt, at position r of rs, moved:
\* the part of AfterRetry that concerns the retries.
RetriesAfter(rs, r, rt) ==
    IF rt.pending # {} THEN [rs EXCEPT ![r] = rt]
    ELSE IF rt.lo + retryBatchSize <= Len(rt.list)
    THEN [rs EXCEPT ![r] = [rt EXCEPT !.phase = "delay"]]
    ELSE RemoveAt(rs, r)

\* What a RetryStep step does to the invocations in flight: the remote call
\* of a retried check settles.  Every such step changes retries, which is
\* the subscript of the fairness condition below.
RetryCallSettles ==
    \E r \in DOMAIN retries : \E p \in retries[r].pending :
        /\ retries[r].phase = "batch"
        /\ retries' = RetriesAfter(retries, r,
                                   [retries[r] EXCEPT !.pending = @ \ {p}])

\* What a RetryDelayElapsed step does to the invocations in flight: the
\* timer of the delay between two batches fires.
RetryTimerFires ==
    \E r \in DOMAIN retries :
        /\ retries[r].phase = "delay"
        /\ retries' = RetriesAfter(retries, r,
                          LaunchedRetry(retries[r],
                                        retries[r].lo + retryBatchSize))

\* Retries of more than one batch with remote services that may fail, every
\* remote call settling and every timer firing: the event loop runs the
\* continuation of every settled promise, so an invocation that waits for
\* its batch or for the delay is resumed.
SpecRetryLive ==
    /\ InitRetry
    /\ [][NextRetry]_vars
    /\ WF_retries(RetryCallSettles)
    /\ WF_retries(RetryTimerFires)

\* ------------------------------------------------------ properties
CheckNames ==
    {"country", "admin", "road", "building", "water", "population",
     "duplicate"}

\* The stored result of a check passes: valid = true, or on_water = false.
Passing(f, checkType) ==
    IF checkType = "water"
    THEN f.waterCheck.present /\ ~f.waterCheck.flag
    ELSE f[FieldOf(checkType)].present /\ f[FieldOf(checkType)].flag

\* The stored result of a check fails: valid = false, or on_water = true.
Failing(f, checkType) ==
    IF checkType = "water"
    THEN f.waterCheck.present /\ f.waterCheck.flag
    ELSE f[FieldOf(checkType)].present /\ ~f[FieldOf(checkType)].flag

TrackedPairs(fc) ==
    UNION {{<<i, fc[i][k].checkType>> : k \in 1..Len(fc[i])} : i \in DOMAIN fc}

ListPairs(list) ==
    {<<list[p].facilityIndex, list[p].checkType>> : p \in 1..Len(list)}

\* A name with the characters of dropped removed, in lowercase and without
\* diacritics.
Plain(str, dropped) ==
    LET kept == SelectSeq(str, LAMBDA c : c \notin dropped)
    IN  [k \in DOMAIN kept |->
            CASE kept[k] = "A" -> "a"
              [] kept[k] = "a'" -> "a"
              [] OTHER -> kept[k]]

IsPrefix(p, q) == \E n \in 0..Len(q) : p = SubSeq(q, 1, n)

ValidationDone == event.actor = "validate" /\ event.completed

RetryDone == event.actor = "retry" /\ event.completed

\* C1: for every combination of the seven stored results (passing, failing
\* or absent) the category is Invalid if the country result is not valid or
\* the water result is on water; otherwise Data Consistency Review if the
\* duplicate or the admin result is not valid; otherwise Location Accuracy
\* Flags if the road, building or population result is not valid; otherwise
\* Valid.
C1_CategoryRules ==
    event.type = "classified" =>
        \A k \in DOMAIN uploadedData :
            LET f == uploadedData[k]
                ok(c) == f[FieldOf(c)].present /\ f[FieldOf(c)].flag
                invalid == ~ok("country") \/ ok("water")
                review == ~ok("duplicate") \/ ~ok("admin")
                flags == ~ok("road") \/ ~ok("building") \/ ~ok("population")
            IN  /\ (f.category = "Invalid") <=> invalid
                /\ (f.category = "Data Consistency Review")
                      <=> (~invalid /\ review)
                /\ (f.category = "Location Accuracy Flags")
                      <=> (~invalid /\ ~review /\ flags)
                /\ (f.category = "Valid")
                      <=> (~invalid /\ ~review /\ ~flags)

\* A facility whose water result is absent and whose road result fails was
\* classified Location Accuracy Flags.
C1_Witness ==
    /\ event.type = "classified"
    /\ \E k \in DOMAIN uploadedData :
          /\ ~uploadedData[k].waterCheck.present
          /\ Failing(uploadedData[k], "road")
          /\ uploadedData[k].category = "Location Accuracy Flags"

\* C2: the tracker holds no entry (facilityIndex, checkType) whose stored
\* check result on that facility is passing.
C2_NoPassingEntry ==
    \A pair \in TrackedPairs(failedChecks) :
        ~Passing(uploadedData[pair[1]], pair[2])

\* C3: a step of a retry invocation leaves the stored result of every
\* (facility, checkType) pair outside its work list unchanged, runs checks
\* of its work list only, and its work list holds the pairs of the tracker
\* at the moment of the invocation.
C3_RetryFrame ==
    [][(event'.actor = "retry" /\ event'.type # "refused") =>
          /\ event'.type = "start" =>
                ListPairs(event'.list) = TrackedPairs(failedChecks)
          /\ \A k \in DOMAIN uploadedData : \A c \in CheckNames :
                <<k, c>> \notin ListPairs(event'.list) =>
                    uploadedData'[k][FieldOf(c)] = uploadedData[k][FieldOf(c)]
          /\ \A n \in 1..Len(event'.checks) :
                /\ event'.checks[n].isRetry
                /\ <<event'.checks[n].facilityIndex,
                     event'.checks[n].checkType>> \in ListPairs(event'.list)
      ]_vars

\* A retried check has just been run while a check that already passed, of
\* a facility with a duplicate result, is outside the work list.
C3_Witness ==
    /\ event.actor = "retry"
    /\ event.type = "item"
    /\ Len(event.checks) > 0
    /\ \E k \in DOMAIN uploadedData : \E c \in RemoteChecks :
          /\ <<k, c>> \notin ListPairs(event.list)
          /\ Passing(uploadedData[k], c)
          /\ uploadedData[k].duplicateCheck.present

\* C4: an invocation of retryFailedChecks while isRetrying is true or the
\* tracker count is zero runs no check and changes neither the tracker,
\* any facility nor the flag; at most one retry work list is in process.
C4_SingleFlight ==
    /\ [](Len(retries) <= 1)
    /\ [][(/\ event'.actor = "retry"
           /\ event'.type \in {"start", "refused"}
           /\ (isRetrying \/ countFailedChecks(failedChecks) = 0)) =>
             /\ event'.type = "refused"
             /\ event'.checks = <<>>
             /\ UNCHANGED <<uploadedData, failedChecks, isRetrying, retries,
                            countryData>>
        ]_vars

\* An invocation was refused while a retry was in flight.
C4_Witness ==
    /\ event.actor = "retry"
    /\ event.type = "refused"
    /\ isRetrying
    /\ Len(retries) = 1
    /\ countFailedChecks(failedChecks) > 0

\* C5: the work list of a retry invocation is the set of pairs in the
\* tracker when it starts, each once; the invocation runs each position of
\* the list exactly once and nothing else; a tracker entry outside the list
\* is not removed by it.
C5_SnapshotOnly ==
    [][(event'.actor = "retry" /\ event'.type # "refused") =>
          /\ event'.type = "start" =>
                /\ ListPairs(event'.list) = TrackedPairs(failedChecks)
                /\ Len(event'.list) = Cardinality(TrackedPairs(failedChecks))
          /\ \A a \in 1..Len(event'.ran) :
                /\ event'.ran[a] \in 1..Len(event'.list)
                /\ \A b \in 1..Len(event'.ran) :
                      a # b => event'.ran[a] # event'.ran[b]
          /\ event'.completed =>
                {event'.ran[a] : a \in 1..Len(event'.ran)}
                    = 1..Len(event'.list)
          /\ \A n \in 1..Len(event'.checks) :
                <<event'.checks[n].facilityIndex,
                  event'.checks[n].checkType>> \in ListPairs(event'.list)
          /\ \A pair \in TrackedPairs(failedChecks) :
                pair \notin ListPairs(event'.list) =>
                    pair \in TrackedPairs(failedChecks')
      ]_vars

\* A retry ended while the tracker holds a failure that was added during
\* the retry and is not in its work list.
C5_Witness ==
    /\ RetryDone
    /\ Len(event.list) > 0
    /\ \E pair \in TrackedPairs(failedChecks) :
          pair \notin ListPairs(event.list)

\* C6: when a retry invocation completes, every entry that remains in the
\* tracker belongs to a check whose stored result is failing.
C6_OnlyFailingEntriesAfterRetry ==
    RetryDone =>
        \A pair \in TrackedPairs(failedChecks) :
            Failing(uploadedData[pair[1]], pair[2])

\* C7: when a validation run ends during which no other validation run
\* and no retry was in flight, every facility is in the results; a facility
\* whose task raised an exception has category Error and error = true, and
\* every other facility was validated in this run and has the category of
\* its own check results.
C7_BatchIsolation ==
    (ValidationDone /\ event.alone) =>
        \A k \in DOMAIN uploadedData :
            /\ \E n \in 1..Len(event.results) : event.results[n] = k
            /\ k \in event.failed =>
                  uploadedData[k].error /\ uploadedData[k].category = "Error"
            /\ k \notin event.failed =>
                  /\ \E n \in 1..Len(event.launched) :
                        event.launched[n] = <<k, k>>
                  /\ \A c \in CheckNames :
                        uploadedData[k][FieldOf(c)].present
                  /\ uploadedData[k].category \in Categories
                  /\ uploadedData[k].category
                        = determineFacilityCategory(uploadedData[k])

\* A run over more than one batch ended, the task of the first facility
\* having raised an exception, the last facility being categorised.
C7_Witness ==
    /\ ValidationDone
    /\ event.alone
    /\ Len(uploadedData) > batchSize
    /\ 1 \in event.failed
    /\ uploadedData[1].category = "Error"
    /\ uploadedData[Len(uploadedData)].category \in Categories

\* C8: when a validation run over N facilities ends, the results list has
\* N elements, results[k] is the facility at index k, and the facilities
\* were validated once each, with their own index.
C8_ResultsInInputOrder ==
    ValidationDone =>
        /\ Len(event.results) = Len(uploadedData)
        /\ \A k \in 1..Len(event.results) : event.results[k] = k
        /\ Len(event.launched) = Len(uploadedData)
        /\ \A k \in 1..Len(event.launched) : event.launched[k] = <<k, k>>

\* A run over a collection that is no multiple of the batch size ended.
C8_Witness ==
    /\ ValidationDone
    /\ Len(uploadedData) = batchSize + 1
    /\ Len(event.results) = batchSize + 1

\* C9: after a first-pass run of a remote check ends in failure of either
\* kind, the tracker contains an entry for that (facilityIndex, checkType).
C9_FirstPassFailureTracked ==
    \A n \in 1..Len(event.checks) :
        (~event.checks[n].isRetry /\ event.checks[n].outcome # "pass") =>
            HasCheck(failedChecks, event.checks[n].facilityIndex,
                     event.checks[n].checkType)

\* C10: after a validation run, every facility that has a failed check
\* among the seven has at least one tracker entry.
C10_FailedFacilityTracked ==
    ValidationDone =>
        \A k \in DOMAIN uploadedData :
            (\E c \in CheckNames : Failing(uploadedData[k], c)) =>
                k \in DOMAIN failedChecks

\* C11: in a validation pass of a facility whose country check produced no
\* address payload, the admin check of that pass makes no network call,
\* stores the invalid "Country data missing" result and is registered in
\* the tracker with failureType api.
C11_AdminFailsWithoutPayload ==
    \A n \in 1..(Len(event.checks) - 1) :
        LET c == event.checks[n]
            a == event.checks[n + 1]
        IN  (/\ c.checkType = "country"
             /\ ~c.isRetry
             /\ c.outcome = "api"
             /\ a.checkType = "admin"
             /\ a.facilityIndex = c.facilityIndex) =>
                /\ ~a.called
                /\ uploadedData[a.facility].adminAreaMatch
                      = Result(FALSE, "Country data missing", 0)
                /\ \E k \in 1..Len(failedChecks[a.facilityIndex]) :
                      /\ failedChecks[a.facilityIndex][k].checkType = "admin"
                      /\ failedChecks[a.facilityIndex][k].failureType = "api"

\* C12: after a first-pass check failure the tracker record of the check
\* has failureType api when the call or the processing of its payload
\* failed or the dependency was missing, and validation when a well-formed
\* response failed the predicate; a failed call or payload is never stored
\* as a passing result.
C12_FailureKindRecorded ==
    \A n \in 1..Len(event.checks) :
        LET e == event.checks[n]
        IN  (~e.isRetry /\ e.outcome # "pass") =>
                /\ e.facilityIndex \in DOMAIN failedChecks
                /\ \E k \in 1..Len(failedChecks[e.facilityIndex]) :
                      /\ failedChecks[e.facilityIndex][k].checkType
                            = e.checkType
                      /\ failedChecks[e.facilityIndex][k].failureType
                            = e.outcome
                /\ ~Passing(uploadedData[e.facility], e.checkType)

\* C13: after a call of addFailedCheck the tracker holds exactly one entry
\* for the key of the call; a further call with the same key, with any
\* facility and failure kind, leaves the tracker as it is; and the call
\* raises countFailedChecks by one when the key was absent and leaves it
\* when the key was present.
C13_AddIdempotent ==
    [][(event'.actor = "tracker" /\ event'.type = "add") =>
          LET a == event'.list[1]
          IN  /\ Cardinality({k \in 1..Len(failedChecks'[a.facilityIndex]) :
                     failedChecks'[a.facilityIndex][k].checkType
                         = a.checkType}) = 1
              /\ \A f \in DOMAIN uploadedData :
                 \A kind \in {"validation", "api"} :
                     addFailedCheck(failedChecks', a.facilityIndex,
                                    a.checkType, f, kind) = failedChecks'
              /\ HasCheck(failedChecks, a.facilityIndex, a.checkType) =>
                     failedChecks' = failedChecks
              /\ countFailedChecks(failedChecks')
                    = countFailedChecks(failedChecks)
                      + (IF HasCheck(failedChecks, a.facilityIndex,
                                     a.checkType)
                         THEN 0 ELSE 1)
      ]_vars

\* addFailedCheck was called for a key already in the tracker, with a
\* failure kind and a facility other than the recorded ones.
C13_Witness ==
    /\ event.actor = "tracker"
    /\ event.type = "add"
    /\ event.hit
    /\ \E k \in 1..Len(failedChecks[event.list[1].facilityIndex]) :
          LET e == failedChecks[event.list[1].facilityIndex][k]
          IN  /\ e.checkType = event.list[1].checkType
              /\ e.failureType # event.list[1].failureType
              /\ e.facility # event.list[1].facility

\* C14: after any sequence of addFailedCheck and removeFailedCheck calls
\* no facility key of the tracker has an empty set of checks and
\* countFailedChecks is the number of distinct (facilityIndex, checkType)
\* pairs in the tracker; a call adds exactly its pair, or removes exactly
\* its pair, and removeFailedCheck of an absent key changes nothing.
C14_TrackerShape ==
    /\ [](/\ \A i \in DOMAIN failedChecks : Len(failedChecks[i]) > 0
          /\ countFailedChecks(failedChecks)
                = Cardinality(TrackedPairs(failedChecks)))
    /\ [][event'.actor = "tracker" =>
            LET a == event'.list[1]
                pair == <<a.facilityIndex, a.checkType>>
            IN  /\ event'.type = "add" =>
                      TrackedPairs(failedChecks')
                          = TrackedPairs(failedChecks) \cup {pair}
                /\ event'.type = "remove" =>
                      TrackedPairs(failedChecks')
                          = TrackedPairs(failedChecks) \ {pair}
                /\ (event'.type = "remove" /\ ~event'.hit) =>
                      failedChecks' = failedChecks
       ]_vars

\* The last check of a facility was removed, pruning its key, while
\* another facility keeps a check.
C14_Witness ==
    /\ event.actor = "tracker"
    /\ event.type = "remove"
    /\ event.hit
    /\ event.list[1].facilityIndex \notin DOMAIN failedChecks
    /\ countFailedChecks(failedChecks) > 0

\* C15: the step in which a validation run starts leaves the tracker empty
\* and runs no check: the first checks of the run are launched, by that
\* same step, with the tracker empty, so no entry made before the run is
\* in the tracker when a check of the run begins.
C15_TrackerResetAtStart ==
    [][(event'.actor = "validate" /\ event'.type = "start") =>
          /\ failedChecks' = <<>>
          /\ countFailedChecks(failedChecks') = 0
          /\ event'.checks = <<>>
          /\ Len(runs') = Len(runs) + 1
          /\ \A j \in 1..Len(runs'[Len(runs')].tasks) :
                runs'[Len(runs')].tasks[j].pc = "country"
      ]_vars

\* A run has just started, with the tracker empty, on a collection in
\* which an earlier run left a failed road check that it had registered.
C15_Witness ==
    /\ event.actor = "validate"
    /\ event.type = "start"
    /\ failedChecks = <<>>
    /\ \E k \in DOMAIN uploadedData :
          uploadedData[k].roadDistance = Result(FALSE, "result", 0)

\* C16: in a validation run the facilities of all batches before the
\* current one are in the results, no facility of a later batch has been
\* started, at most batchSize facility tasks are in flight, and the run
\* moves to its next batch only by the step that settles the last task of
\* the current one.
C16_BatchesSequential ==
    /\ [](\A r \in DOMAIN runs :
            LET run == runs[r]
            IN  /\ Len(run.tasks) <= batchSize
                /\ Len(run.results) = run.lo - 1
                /\ \A k \in 1..Len(run.results) : run.results[k] = k
                /\ Len(run.launched) = run.lo - 1 + Len(run.tasks)
                /\ \A n \in 1..Len(run.launched) :
                      run.launched[n][2] <= run.lo + batchSize - 1
                /\ Len(run.launched) - Len(run.results) <= batchSize)
    /\ [][\A r \in DOMAIN runs :
            (/\ Len(runs') = Len(runs)
             /\ runs'[r].lo > runs[r].lo) =>
                Cardinality({j \in 1..Len(runs[r].tasks) :
                    runs[r].tasks[j].pc \notin {"fulfilled", "rejected"}}) <= 1
       ]_vars

\* The second batch of a run is in flight after a first batch of batchSize
\* facilities, one of which failed, has settled.
C16_Witness ==
    \E r \in DOMAIN runs :
        /\ runs[r].lo = batchSize + 1
        /\ Len(runs[r].results) = batchSize
        /\ runs[r].failed # {}
        /\ \E j \in 1..Len(runs[r].tasks) : runs[r].tasks[j].pc = "country"

\* The checks that come before checkType in the loop of
\* validateSingleFacility.
Preceding(checkType) ==
    {checkTypes[k] : k \in {n \in 1..Len(checkTypes) :
        \E m \in 1..Len(checkTypes) : checkTypes[m] = checkType /\ n < m}}

\* C17: in a facility's first-pass validation a remote check is in flight
\* only when every check before it in the order country, admin, road,
\* building, water, population has stored its result; a step of the task
\* finishes exactly the check in flight (with the admin check right after
\* the country check), whether it passed or failed; and the duplicate
\* result is stored only by the step that finishes the population check.
C17_ChecksInOrder ==
    /\ [](\A r \in DOMAIN runs : \A j \in 1..Len(runs[r].tasks) :
            LET task == runs[r].tasks[j]
            IN  task.pc \in RemoteChecks =>
                    \A c \in Preceding(task.pc) :
                        uploadedData[task.facility][FieldOf(c)].present)
    /\ [][(event'.actor = "validate" /\ event'.type = "task") =>
            LET log == event'.checks
                f == log[1].facility
            IN  /\ Len(log) \in {1, 2}
                /\ log[1].checkType \in RemoteChecks
                /\ ~log[1].isRetry
                /\ \E r \in DOMAIN runs : \E j \in 1..Len(runs[r].tasks) :
                      /\ runs[r].tasks[j].facility = f
                      /\ runs[r].tasks[j].pc = log[1].checkType
                /\ (Len(log) = 2) <=> (log[1].checkType = "country")
                /\ Len(log) = 2 =>
                      /\ log[2].checkType = "admin"
                      /\ log[2].facility = f
                      /\ ~log[2].isRetry
                /\ \A k \in DOMAIN uploadedData :
                      uploadedData'[k].duplicateCheck
                          # uploadedData[k].duplicateCheck =>
                              (k = f /\ log[1].checkType = "population")
                /\ log[1].checkType = "population" =>
                      /\ uploadedData'[f].duplicateCheck.present
                      /\ \A c \in CheckNames :
                            uploadedData'[f][FieldOf(c)].present
       ]_vars

\* The road check of a facility is in flight after its country check
\* failed, its later checks not yet run.
C17_Witness ==
    \E r \in DOMAIN runs : \E j \in 1..Len(runs[r].tasks) :
        LET task == runs[r].tasks[j]
        IN  /\ task.pc = "road"
            /\ uploadedData[task.facility].countryBoundary
                  = Result(FALSE, "API Error", 0)
            /\ uploadedData[task.facility].adminAreaMatch.present
            /\ ~uploadedData[task.facility].roadDistance.present
            /\ ~uploadedData[task.facility].duplicateCheck.present

\* C18: when a retry invocation that re-ran both the country and the admin
\* check of a facility completes, and the country re-run produced an
\* address payload, the stored admin result is the evaluation of that
\* payload.
C18_AdminSeesRetriedCountry ==
    RetryDone =>
        \A i \in DOMAIN uploadedData :
            (/\ <<i, "country">> \in ListPairs(event.list)
             /\ <<i, "admin">> \in ListPairs(event.list)
             /\ uploadedData[i].countryBoundary.message = "result"
             /\ uploadedData[i].countryData \in {"match", "mismatch"}) =>
                uploadedData[i].adminAreaMatch
                    = Result(uploadedData[i].countryData = "match",
                             "result", 0)

\* C19: when a retry invocation completes, every facility with a check in
\* its work list has the category determineFacilityCategory gives for its
\* current check results.
C19_CategoryRecomputed ==
    RetryDone =>
        \A p \in 1..Len(event.list) :
            LET f == uploadedData[event.list[p].facilityIndex]
            IN  /\ f.category \in Categories
                /\ f.category = determineFacilityCategory(f)

\* A retry completed after which a facility, Invalid before it, has a
\* check that passed and a check that is still in the tracker, and another
\* category.
C19_Witness ==
    /\ RetryDone
    /\ \E p \in 1..Len(event.list) :
          LET i == event.list[p].facilityIndex
          IN  /\ i \in DOMAIN failedChecks
              /\ Passing(uploadedData[i], "country")
              /\ uploadedData[i].category = "Data Consistency Review"

\* C20: whenever no validation and no retry is in flight, every facility
\* that has a category other than Error has the category
\* determineFacilityCategory gives for its stored check results.
C20_CategoryFromChecks ==
    (runs = <<>> /\ retries = <<>>) =>
        \A k \in DOMAIN uploadedData :
            uploadedData[k].category \notin {"none", "Error"} =>
                uploadedData[k].category
                    = determineFacilityCategory(uploadedData[k])

\* C21: no error aborts a batch or the run.  A facility task runs its six
\* checks, in order, whatever the remote services answered; a validation
\* run that ends has launched every facility and collected one result for
\* each; and, every remote call settling, a validation run that was started
\* ends.
C21_RunCompletes ==
    /\ [](event.actor = "validate" /\ event.type = "task" =>
            /\ [j \in 1..Len(event.checks) |-> event.checks[j].checkType]
                  = checkTypes
            /\ \A j \in 1..Len(event.checks) :
                  event.checks[j].facilityIndex = event.checks[1].facilityIndex)
    /\ [](ValidationDone =>
            /\ Len(event.results) = Len(uploadedData)
            /\ {event.launched[j][2] : j \in 1..Len(event.launched)}
                  = DOMAIN uploadedData)
    /\ (event.actor = "validate" /\ event.type = "start") ~> ValidationDone

\* A run over more than one batch ended with all its results although the
\* country lookup of a facility of the first batch had failed: the later
\* checks of that facility and the facilities of the second batch have
\* evaluated results.
C21_Witness ==
    /\ ValidationDone
    /\ Len(uploadedData) > batchSize
    /\ Len(event.results) = Len(uploadedData)
    /\ \E k \in 1..batchSize :
          /\ uploadedData[k].countryBoundary.message = "API Error"
          /\ uploadedData[k].populationDensity.message = "result"
    /\ \A k \in (batchSize + 1)..Len(uploadedData) :
          uploadedData[k].populationDensity.message = "result"

\* C22: in every reachable state, across repeated validation runs and
\* retries, a facility has error = true if and only if its category is
\* Error.
C22_ErrorIffCategoryError ==
    \A k \in DOMAIN uploadedData :
        uploadedData[k].error <=> (uploadedData[k].category = "Error")

\* C25: in both implementations of the population check, for every
\* non-negative population the service returns the stored result is valid
\* if and only if the population is greater than 100; a missing population
\* is stored as 0 and fails.
C25_PopulationThreshold ==
    event.actor = "population" =>
        LET popData == event.list[1]
            stored == uploadedData[1].populationDensity
        IN  IF "population" \in DOMAIN popData
            THEN /\ stored.n = popData.population
                 /\ stored.flag <=> (popData.population > 100)
            ELSE stored.n = 0 /\ ~stored.flag

\* C24: after a validation run, for any two facilities A and B, the
\* duplicate check of A counts B if and only if the duplicate check of B
\* counts A (each stored count is the number of facilities counted), and
\* then both duplicate results fail, whichever batches A and B belong to.
C24_DuplicatesSymmetric ==
    ValidationDone =>
        \A a \in DOMAIN uploadedData : \A b \in DOMAIN uploadedData \ {a} :
            LET counts(p, q) == q \in Duplicates(uploadedData, p, p)
                stored(p) == uploadedData[p].duplicateCheck
            IN  /\ stored(a).present
                /\ stored(a).n
                      = Cardinality({q \in DOMAIN uploadedData : counts(a, q)})
                /\ stored(a).flag <=> (stored(a).n = 0)
                /\ counts(a, b) <=> counts(b, a)
                /\ counts(a, b) => ~stored(a).flag /\ ~stored(b).flag

\* A run ended in which a facility of the first batch and a facility of
\* the second batch lie at the same place: each counts one duplicate.
C24_Witness ==
    /\ ValidationDone
    /\ \E a \in 1..batchSize : \E b \in (batchSize + 1)..Len(uploadedData) :
          /\ uploadedData[a].x = uploadedData[b].x
          /\ uploadedData[a].y = uploadedData[b].y
          /\ uploadedData[a].duplicateCheck.n = 1
          /\ uploadedData[b].duplicateCheck.n = 1
          /\ ~uploadedData[a].duplicateCheck.flag
          /\ ~uploadedData[b].duplicateCheck.flag

\* C26 (amended): given a country payload, the admin check passes if and
\* only if both names are non-empty once lowercased and rid of white space
\* and, diacritics stripped as well, the two strings are equal or one is a
\* prefix of the other; an empty or missing uploaded Admin1, or an empty OSM
\* name, fails the check.
C26_AdminMatchNonEmpty ==
    event.actor = "admin" =>
        LET u == OrEmpty(event.list[1].Admin1)
            o == event.list[1].osmAdmin1
            un == Plain(u, {" ", "'"})
            on == Plain(o, {" ", "'"})
        IN  uploadedData[1].adminAreaMatch.flag <=>
                /\ Plain(u, {" "}) # <<>>
                /\ Plain(o, {" "}) # <<>>
                /\ un = on \/ IsPrefix(un, on) \/ IsPrefix(on, un)

\* C26 as stated: given a country payload, the admin check passes if and
\* only if the two names, lowercased and rid of diacritics and white space,
\* are equal or one is a prefix of the other, for every pair of names, an
\* empty or missing uploaded Admin1 and an empty OSM name included.
C26_AdminMatchAsStated ==
    event.actor = "admin" =>
        LET un == Plain(OrEmpty(event.list[1].Admin1), {" ", "'"})
            on == Plain(event.list[1].osmAdmin1, {" ", "'"})
        IN  uploadedData[1].adminAreaMatch.flag <=>
                (un = on \/ IsPrefix(un, on) \/ IsPrefix(on, un))

\* The admin check ran on a facility without Admin1 against an OSM name
\* that is not empty, and failed.
C26_Witness ==
    /\ event.actor = "admin"
    /\ ~event.list[1].Admin1.defined
    /\ Plain(event.list[1].osmAdmin1, {" ", "'"}) # <<>>
    /\ uploadedData[1].adminAreaMatch.present
    /\ ~uploadedData[1].adminAreaMatch.flag

\* C27: after a file import the uploaded collection holds exactly the
\* parsed rows whose Name, x and y are not empty, in their original order:
\* every uploaded row is such a parsed row, every such parsed row is
\* uploaded, and the uploaded rows follow each other as in the file.
C27_ImportKeepsCompleteRows ==
    event.actor = "import" =>
        LET data == event.list
            filled(cell) == cell.defined /\ cell.value # ""
            complete(r) == filled(r.Name) /\ filled(r.x) /\ filled(r.y)
        IN  /\ \A k \in DOMAIN uploadedData :
                  /\ uploadedData[k].line \in DOMAIN data
                  /\ uploadedData[k] = data[uploadedData[k].line]
                  /\ complete(uploadedData[k])
            /\ \A i \in DOMAIN data :
                  complete(data[i]) =>
                      \E k \in DOMAIN uploadedData : uploadedData[k] = data[i]
            /\ \A k \in DOMAIN uploadedData : \A m \in DOMAIN uploadedData :
                  k < m => uploadedData[k].line < uploadedData[m].line

\* A file was imported whose first row lacks y and whose second row is
\* complete: the collection holds the second row alone.
C27_Witness ==
    /\ event.actor = "import"
    /\ Len(event.list) = 2
    /\ ~event.list[1].y.defined
    /\ event.list[1].Name.value # ""
    /\ event.list[1].x.value # ""
    /\ uploadedData = <<event.list[2]>>

\* C28: a retry invocation processes its work list in consecutive batches
\* of at most 5 items in snapshot order.  The items launched so far are the
\* positions 1 to the end of the current batch, in order; the items in
\* flight belong to the current batch and are at most 5; the delay is
\* waited for only with no item in flight and another batch to come; the
\* next batch starts only after the delay, which started when the last
\* item of the batch settled; and a retry that ends has run every item of
\* its list, whatever the items before it answered.
C28_RetryBatches ==
    /\ [](\A r \in DOMAIN retries :
            LET rt == retries[r]
                hi == Min(rt.lo + 5 - 1, Len(rt.list))
            IN  /\ rt.lo % 5 = 1
                /\ rt.ran = [p \in 1..hi |-> p]
                /\ rt.pending \subseteq rt.lo..hi
                /\ Cardinality(rt.pending) <= 5
                /\ rt.phase = "delay" =>
                      rt.pending = {} /\ rt.lo + 5 <= Len(rt.list))
    /\ [](RetryDone => event.ran = [p \in 1..Len(event.list) |-> p])
    /\ [][\A r \in DOMAIN retries :
            /\ (/\ Len(retries') = Len(retries)
                /\ retries'[r].lo # retries[r].lo) =>
                   /\ retries[r].phase = "delay"
                   /\ retries[r].pending = {}
                   /\ retries'[r].lo = retries[r].lo + 5
            /\ (/\ Len(retries') = Len(retries)
                /\ retries[r].phase = "batch"
                /\ retries'[r].phase = "delay") =>
                   Cardinality(retries[r].pending) = 1
            /\ Len(retries') < Len(retries) =>
                   /\ retries[r].phase = "batch"
                   /\ retries[r].lo + 5 > Len(retries[r].list)
       ]_vars

\* The second batch of a retry is in flight after an item of its first
\* batch failed again: the failed item is still in the tracker.
C28_Witness ==
    \E r \in DOMAIN retries :
        /\ retries[r].lo = retryBatchSize + 1
        /\ retries[r].phase = "batch"
        /\ retries[r].pending # {}
        /\ \E p \in 1..retryBatchSize :
              /\ uploadedData[retries[r].list[p].facility]
                    [FieldOf(retries[r].list[p].checkType)].message
                       = "API Error"
              /\ HasCheck(failedChecks, retries[r].list[p].facilityIndex,
                          retries[r].list[p].checkType)

\* C29: during a validation run over N facilities progress is reported
\* once after each batch, as (number of facilities settled so far, N): the
\* k-th report is (min(5k, N), N), so the reported values increase strictly
\* and the last one is N; a run that ends has reported once for each of
\* its batches and the page shows its last report.
C29_ProgressPerBatch ==
    LET N == Len(uploadedData)
        report(k) == <<Min(5 * k, N), N>>
    IN  /\ \A r \in DOMAIN runs :
              /\ runs[r].progress
                    = [k \in 1..((runs[r].lo - 1) \div 5) |-> report(k)]
              /\ \A k \in 1..Len(runs[r].progress) :
                    /\ runs[r].progress[k][1] = Len(runs[r].results) - 5 *
                          (Len(runs[r].progress) - k)
                    /\ k > 1 => runs[r].progress[k][1]
                                   > runs[r].progress[k - 1][1]
        /\ ValidationDone =>
              /\ event.progress = [k \in 1..((N + 4) \div 5) |-> report(k)]
              /\ event.progress[Len(event.progress)] = <<N, N>>
              /\ \A k \in 2..Len(event.progress) :
                    event.progress[k][1] > event.progress[k - 1][1]
              /\ event.alone => document.progressText = <<N, N>>

\* A run over a batch of batchSize facilities and one more ended although
\* a facility task of it had failed: it reported (5, 6), then (6, 6).
C29_Witness ==
    /\ ValidationDone
    /\ event.failed # {}
    /\ event.progress = <<<<batchSize, batchSize + 1>>,
                          <<batchSize + 1, batchSize + 1>>>>

\* C30: every run of a check by runApiCheck, on the first pass or in a
\* retry, sets the status indicator of the check to loading when it starts
\* and has left it at success or failed when it returns: success exactly
\* when the check was evaluated and passed, failed otherwise, with the
\* api-error flag exactly when the run ended in a failure of kind api,
\* whatever flag an earlier run had set.
C30_StatusFollowsOutcome ==
    /\ [](\A n \in 1..Len(event.checks) :
            LET c == event.checks[n]
                indicator == document.checks[c.facilityIndex][c.checkType]
            IN  /\ c.facilityIndex \in DOMAIN document.checks
                /\ indicator.status \in {"success", "failed"}
                /\ (indicator.status = "success") <=> (c.outcome = "pass")
                /\ indicator.apiError <=> (c.outcome = "api"))
    /\ [][/\ Len(runs') >= Len(runs) =>
              \A r \in DOMAIN runs' : \A j \in 1..Len(runs'[r].tasks) :
                  (/\ runs'[r].tasks[j].pc \in RemoteChecks
                   /\ \/ r \notin DOMAIN runs
                      \/ j > Len(runs[r].tasks)
                      \/ runs[r].tasks[j] # runs'[r].tasks[j]) =>
                      document'.checks[runs'[r].tasks[j].index]
                                      [runs'[r].tasks[j].pc]
                         = [status |-> "loading", apiError |-> FALSE]
         /\ Len(retries') >= Len(retries) =>
              \A r \in DOMAIN retries' :
                  \A p \in retries'[r].pending \
                           (IF r \in DOMAIN retries /\ retries[r].lo = retries'[r].lo
                            THEN retries[r].pending ELSE {}) :
                      document'.checks[retries'[r].list[p].facilityIndex]
                                      [retries'[r].list[p].checkType]
                         = [status |-> "loading", apiError |-> FALSE]
       ]_vars

\* A retried check whose first run had failed with kind api (the tracker
\* record says so) was evaluated and failed: its indicator is failed
\* without the api-error flag.
C30_Witness ==
    \E n \in 1..Len(event.checks) :
        LET c == event.checks[n]
        IN  /\ c.isRetry
            /\ c.outcome = "validation"
            /\ \E k \in 1..Len(failedChecks[c.facilityIndex]) :
                  /\ failedChecks[c.facilityIndex][k].checkType = c.checkType
                  /\ failedChecks[c.facilityIndex][k].failureType = "api"
            /\ document.checks[c.facilityIndex][c.checkType]
                  = [status |-> "failed", apiError |-> FALSE]

\* C23: in every reachable state the retry button is disabled if and only
\* if the tracker count is zero or a retry is in progress, and whenever it
\* is enabled its label shows exactly countFailedChecks().
C23_RetryButtonState ==
    /\ document.retryBtn.disabled
          <=> (countFailedChecks(failedChecks) = 0 \/ isRetrying)
    /\ ~document.retryBtn.disabled =>
          /\ document.retryBtn.text = "Retry Failed (n)"
          /\ document.retryBtn.count = countFailedChecks(failedChecks)

\* C31: a retried admin check on a facility that has no country payload is
\* handled as an API failure: the stored admin result is invalid, the
\* indicator is failed with the api flag, no network call is made and the
\* (facility, admin) entry is in the tracker when the retry of the item
\* returns.
C31_RetriedAdminWithoutPayload ==
    [][\A k \in 1..Len(event'.checks) :
          (/\ event'.checks[k].isRetry
           /\ event'.checks[k].checkType = "admin"
           /\ uploadedData[event'.checks[k].facility].countryData = "none")
          => /\ uploadedData'[event'.checks[k].facility].adminAreaMatch
                   = Result(FALSE, "Country data missing", 0)
             /\ document'.checks[event'.checks[k].facilityIndex]["admin"]
                   = [status |-> "failed", apiError |-> TRUE]
             /\ ~event'.checks[k].called
             /\ event'.checks[k].outcome = "api"
             /\ HasCheck(failedChecks', event'.checks[k].facilityIndex,
                         "admin")]_vars

C31_Witness ==
    /\ event.actor = "retry"
    /\ \E k \in 1..Len(event.checks) :
          /\ event.checks[k].isRetry
          /\ event.checks[k].checkType = "admin"
          /\ uploadedData[event.checks[k].facility].countryData = "none"
          /\ HasCheck(failedChecks, event.checks[k].facilityIndex, "admin")

\* C32: the duplicate result of a facility is computed against the whole
\* uploaded collection: it fails if and only if some facility at another
\* index, of any batch, lies within the threshold of it in both x and y,
\* its count is the number of such facilities, and the facility itself is
\* never counted.
C32_DuplicatesOverCollection ==
    \A k \in DOMAIN uploadedData :
        uploadedData[k].duplicateCheck.present =>
            LET near == {i \in DOMAIN uploadedData :
                            /\ Abs(uploadedData[i].x - uploadedData[k].x)
                                  < threshold
                            /\ Abs(uploadedData[i].y - uploadedData[k].y)
                                  < threshold}
            IN  /\ k \in near
                /\ uploadedData[k].duplicateCheck.n = Cardinality(near) - 1
                /\ uploadedData[k].duplicateCheck.flag <=> (near = {k})

\* The first facility has its result while the second batch is not yet
\* launched, and the one facility at its place is the one of the second
\* batch: it is counted.
C32_Witness ==
    /\ runs # <<>>
    /\ Len(uploadedData) > batchSize
    /\ uploadedData[1].duplicateCheck.present
    /\ ~uploadedData[Len(uploadedData)].duplicateCheck.present
    /\ {i \in DOMAIN uploadedData :
           /\ uploadedData[i].x = uploadedData[1].x
           /\ uploadedData[i].y = uploadedData[1].y} = {1, Len(uploadedData)}
    /\ uploadedData[1].duplicateCheck.n = 1
    /\ ~uploadedData[1].duplicateCheck.flag

\* C33: in unnamed/part_000, with the facilities of a batch validated
\* concurrently, the admin result of a facility is computed only from the
\* payload its own country lookup returned in the same pass; when that
\* lookup fails, the admin check fails and is evaluated against no payload,
\* neither of another facility nor of an earlier lookup.
C33_AdminFromOwnLookup ==
    event.type = "country" =>
        IF event.hit
        THEN /\ Len(event.list) = 1
             /\ event.list[1].owner = event.ran[1]
        ELSE /\ event.list = <<>>
             /\ ~uploadedData[event.ran[1]].adminAreaMatch.flag

\* C34: for the five checks that store a valid flag, whenever no validation
\* run and no retry is in flight the tracker holds the entry (i, c) if and
\* only if the stored result of check c on facility i has valid = false,
\* whatever the user did before, a validation run started during a retry
\* included.
C34_TrackerMirrorsResults ==
    (runs = <<>> /\ retries = <<>>) =>
        \A i \in DOMAIN uploadedData :
            \A c \in {"country", "admin", "road", "building", "population"} :
                HasCheck(failedChecks, i, c) <=>
                    /\ uploadedData[i][FieldOf(c)].present
                    /\ ~uploadedData[i][FieldOf(c)].flag

\* C35: a facility has category Valid only if each of its six remote
\* checks was evaluated from a successful response and passed; a facility
\* with a remote check that ended in an API failure is never Valid, after
\* the first pass or after a retry.
C35_ValidOnlyIfAllEvaluated ==
    \A k \in DOMAIN uploadedData :
        uploadedData[k].category = "Valid" =>
            \A n \in 1..Len(checkTypes) :
                /\ uploadedData[k][FieldOf(checkTypes[n])].message = "result"
                /\ Passing(uploadedData[k], checkTypes[n])

\* C36: a failure record that exists before and after a step is the same
\* record: its facility reference, failureType, retryCount and maxRetries
\* are as they were created, also when a retry of the check fails again
\* with a failure of the other kind.
C36_RecordUnchanged ==
    [][\A i \in DOMAIN failedChecks \cap DOMAIN failedChecks' :
          \A k \in 1..Len(failedChecks[i]) :
              \A m \in 1..Len(failedChecks'[i]) :
                  failedChecks[i][k].checkType = failedChecks'[i][m].checkType
                  => failedChecks'[i][m] = failedChecks[i][k]]_vars

\* A retried check has failed with an API failure and its record, created
\* for a validation failure, is in the tracker.
C36_Witness ==
    /\ event.actor = "retry"
    /\ \E n \in 1..Len(event.checks) :
          /\ event.checks[n].isRetry
          /\ event.checks[n].outcome = "api"
          /\ event.checks[n].called
          /\ \E k \in 1..Len(failedChecks[event.checks[n].facilityIndex]) :
                failedChecks[event.checks[n].facilityIndex][k]
                    = FailureRecord(event.checks[n].checkType,
                                    event.checks[n].facility, "validation")

\* C37: every failure record has maxRetries = 3 and retryCount <=
\* maxRetries, and the ceiling suppresses no retry: a retried check that
\* fails again stays in the tracker, an invocation is refused only during
\* a retry or with an empty tracker, and an accepted invocation re-runs
\* every tracked check, also the one that failed more than 3 retries.
C37_CeilingNotEnforced ==
    /\ [](\A i \in DOMAIN failedChecks : \A k \in 1..Len(failedChecks[i]) :
             /\ failedChecks[i][k].maxRetries = 3
             /\ failedChecks[i][k].retryCount <= failedChecks[i][k].maxRetries)
    /\ [][event'.actor = "retry" =>
             /\ event'.type = "refused" =>
                   isRetrying \/ TrackedPairs(failedChecks) = {}
             /\ event'.type = "start" =>
                   /\ ListPairs(event'.list) = TrackedPairs(failedChecks)
                   /\ {event'.list[event'.ran[n]] : n \in 1..Len(event'.ran)}
                         = {event'.list[p] : p \in 1..Len(event'.list)}
             /\ \A n \in 1..Len(event'.checks) :
                   event'.checks[n].outcome # "pass" =>
                       HasCheck(failedChecks', event'.checks[n].facilityIndex,
                                event'.checks[n].checkType)
         ]_vars

\* A retry invocation is accepted after the retried calls of the tracked
\* check have failed more than maxRetries times.
C37_Witness ==
    /\ event.actor = "retry"
    /\ event.type = "start"
    /\ faults > maxRetries
    /\ \E p \in 1..Len(event.list) : event.list[p].checkType # "admin"

\* C38: in every reachable state each tracker entry (i, c) references the
\* facility that is at index i of the uploaded collection, also after a
\* file import that follows a validation run.
C38_EntryReferencesCurrentFacility ==
    \A i \in DOMAIN failedChecks : \A k \in 1..Len(failedChecks[i]) :
        /\ i \in DOMAIN uploadedData
        /\ failedChecks[i][k].facility = i

\* C39: every retry invocation that passes the guard eventually completes
\* with isRetrying false again, whatever the outcomes of the retried checks,
\* every remote call settling; at the completion, and in every state in
\* which no retry runs and the tracker is non-empty, a retry invocation is
\* accepted.
C39_RetryCompletes ==
    /\ isRetrying ~> (RetryDone /\ ~isRetrying)
    /\ [](RetryDone /\ countFailedChecks(failedChecks) > 0 => RetryGuard)
    /\ [][~isRetrying /\ countFailedChecks(failedChecks) > 0
             /\ event'.actor = "retry"
          => event'.type = "start" /\ (isRetrying' \/ event'.completed)]_vars

\* A further invocation was accepted after a retry whose checks had failing
\* outcomes completed: the work list is shorter than the one of the first
\* retry and the budget of faults is spent.
C39_Witness ==
    /\ event.actor = "retry" /\ event.type = "start"
    /\ isRetrying
    /\ faults = MaxFaults
    /\ Len(event.list) \in 1..MaxFaults

====
